---- MODULE Spec2Model ----
(***************************************************************************)
(* A model of the JANVANI client: the request gateway of                   *)
(* Frontend/src/lib/api.ts (response cache, in-flight map, retry) and the  *)
(* session/entity coordinator of AppContext.tsx, running against the       *)
(* server's handlers (ComplaintController.js, AuthController.js,           *)
(* middleware/Auth.js).                                                    *)
(*                                                                         *)
(* Strings of the program that the code inspects with includes(), split()  *)
(* or a regular expression (endpoints, cache keys, error messages) are     *)
(* sequences of tokens; includes() is "is a contiguous subsequence of".    *)
(***************************************************************************)
EXTENDS Integers, Sequences, FiniteSets, TLC

\* ------------------------------------------------------------------ bounds
MaxCalls == 2
MaxTicks == 1

\* --------------------------------------------------------- program constants
CACHE_TTL == 15000
DefaultRetries == 2

\* ------------------------------------------------------------ value universe
None == "none"
NoCall == 0

\* The seeded complaint: its human-facing id and its storage id.
H1 == "JV-2026-00001"
S1 == "m1"
H2 == "JV-2026-00002"
S2 == "m2"

\* Identities (a bearer token is modelled by the identity it was issued to).
Citizen1 == "u1"
Citizen2 == "u2"
Admin1 == "a1"

\* ------------------------------------------------------- strings as tokens
Includes(s, p) ==
    \E i \in 1..(Len(s) - Len(p) + 1) : SubSeq(s, i, i + Len(p) - 1) = p

\* endpoint.split('/')[n] for an endpoint "/seg1/seg2/...": the n-th segment
\* (the 0-th is the empty string before the leading slash).
SplitSlash(ep, n) == IF n = 0 THEN "" ELSE IF 2 * n <= Len(ep) THEN ep[2 * n] ELSE None

\* Endpoints of the API (complaintAPI, userAPI, authAPI).
EpList == <<"/", "complaints">>
EpListQ == <<"/", "complaints", "?", "limit=200">>
EpStats == <<"/", "complaints", "/", "stats">>
EpLeaderboard == <<"/", "users", "/", "leaderboard">>
EpItem(id) == <<"/", "complaints", "/", id>>
EpStatus(id) == <<"/", "complaints", "/", id, "/", "status">>
EpResolve(id) == <<"/", "complaints", "/", id, "/", "resolve">>
EpSupport(id) == <<"/", "complaints", "/", id, "/", "support">>
EpFeedback(id) == <<"/", "complaints", "/", id, "/", "feedback">>

\* Error messages (lower-cased, as the gateway compares them).
MsgFailedToFetch == <<"failed", "to", "fetch">>
MsgTimedOut == <<"request", "timed", "out">>
MsgTokenInvalid == <<"token", "invalid", "or", "expired">>
MsgUserNotFound == <<"user", "not", "found">>
MsgServerError == <<"server", "error">>
MsgNotFound == <<"complaint", "not", "found">>

Role(tok) == IF tok = Admin1 THEN "admin" ELSE "citizen"

\* ------------------------------------------------------------------- state
VARIABLES
    now,          \* Date.now()
    ticks,        \* how often the clock has advanced
    token,        \* localStorage jv_token
    cache,        \* api.ts cache: key -> <<>> or <<[data, ts]>>
    inFlight,     \* api.ts inFlight: key -> the call whose fetch promise is registered
    calls,        \* the request() invocations made so far
    srv,          \* the server's database
    ops,          \* the coordinator's async operations started so far
    currentUser,  \* AppProvider state: <<>> or <<user>>
    currentUserRef,
    complaints,   \* AppProvider state: the complaints collection
    users,        \* AppProvider state: the citizen roster
    isLoadingComplaints,
    isLoadingUsers,
    pollTimer,    \* <<>>, or <<user>>: the interval and the user startPolling captured
    timers,       \* pending setTimeout callbacks
    lsUser,       \* localStorage jv_user
    lsComplaints, \* localStorage jv_complaints: <<>> or <<[data, ts]>>
    didInit       \* the mount effect has run

vars == <<now, ticks, token, cache, inFlight, calls, srv, ops, currentUser,
          currentUserRef, complaints, users, isLoadingComplaints, isLoadingUsers,
          pollTimer, timers, lsUser, lsComplaints, didInit>>

\* ------------------------------------------------------------------ server
STATUSES == <<"Submitted", "Under Review", "In Progress", "Resolved">>

\* new Date().toISOString().split('T')[0] on the server; null for no date.
today == "2026-11-04"
NoDate == ""

\* Complaint.js timeline default: only the first step is done and dated.
TimelineDefault ==
    <<[done |-> TRUE, date |-> today], [done |-> FALSE, date |-> NoDate],
      [done |-> FALSE, date |-> NoDate], [done |-> FALSE, date |-> NoDate]>>

SeedComplaint(hid, sid, owner) ==
    [complaintId |-> hid, _id |-> sid, citizenId |-> owner, status |-> "Submitted",
     supportCount |-> 0, supportedBy |-> <<>>, feedback |-> <<>>,
     timeline |-> TimelineDefault]

\* What a handler answers: a JSON body, or an error status with a message.
Payload(tok, ver) ==
    [tok |-> tok, ver |-> ver, complaints |-> <<>>, complaint |-> <<>>,
     user |-> <<>>, users |-> <<>>, token |-> None, supportCount |-> -1]

Answer(s, data) == [srv |-> s, ok |-> TRUE, http |-> 200, data |-> data, msg |-> <<>>]
Refuse(s, http, msg) ==
    [srv |-> s, ok |-> FALSE, http |-> http, data |-> Payload(None, 0), msg |-> msg]

MatchesParam(c, id) == c._id = id \/ c.complaintId = id

FindIdx(cs, id) ==
    IF \E i \in 1..Len(cs) : MatchesParam(cs[i], id)
    THEN CHOOSE i \in 1..Len(cs) :
            MatchesParam(cs[i], id) /\ \A j \in 1..(i - 1) : ~MatchesParam(cs[j], id)
    ELSE 0

\* LIST_SELECT leaves supportedBy out of list answers.
ListProjection(c) ==
    [complaintId |-> c.complaintId, _id |-> c._id, citizenId |-> c.citizenId,
     status |-> c.status, supportCount |-> c.supportCount, feedback |-> c.feedback,
     timeline |-> c.timeline]

MapSeq(cs, F(_)) == [i \in 1..Len(cs) |-> F(cs[i])]

\* GET /complaints: a citizen is answered with their own complaints only.
getComplaints(s, tok) ==
    LET Own(c) == Role(tok) = "admin" \/ c.citizenId = tok
    IN  Answer(s, [Payload(tok, s.ver) EXCEPT
                    !.complaints = MapSeq(SelectSeq(s.complaints, Own), ListProjection)])

\* GET /complaints/:id
getComplaintById(s, tok, id) ==
    LET i == FindIdx(s.complaints, id)
    IN  IF i = 0 THEN Refuse(s, 404, MsgNotFound)
        ELSE IF Role(tok) = "citizen" /\ s.complaints[i].citizenId # tok
             THEN Refuse(s, 403, <<"access", "denied">>)
             ELSE Answer(s, [Payload(tok, s.ver) EXCEPT !.complaint = <<s.complaints[i]>>])

\* GET /complaints/stats and GET /users/leaderboard (aggregates: only their
\* version and who asked matter here).
getAggregate(s, tok) == Answer(s, Payload(tok, s.ver))

StepOf(status) ==
    IF status = "Under Review" THEN 1 ELSE IF status = "In Progress" THEN 2
    ELSE IF status = "Resolved" THEN 3 ELSE -1

\* The loop of updateStatus marking one step only: the step of the new status.
markStepsLastOnly(tl, stepIdx) ==
    [n \in 1..Len(tl) |->
        IF n - 1 >= 1 /\ n - 1 = stepIdx /\ ~tl[n].done
        THEN [done |-> TRUE, date |-> today] ELSE tl[n]]

\* The loop of updateStatus: for i = 1..stepIdx, a step that is not done
\* becomes done and is dated today (timeline[i] is the (i+1)-th element here).
markSteps(tl, stepIdx) ==
    [n \in 1..Len(tl) |->
        IF n - 1 >= 1 /\ n - 1 <= stepIdx /\ ~tl[n].done
        THEN [done |-> TRUE, date |-> today] ELSE tl[n]]

\* resolveComplaint: timeline.map(step => ({...step, done: true, date: step.date || today}))
markAll(tl) ==
    [n \in 1..Len(tl) |->
        [done |-> TRUE, date |-> IF tl[n].date # NoDate THEN tl[n].date ELSE today]]

\* PATCH /complaints/:id/status
updateStatus(s, tok, id, status) ==
    LET i == FindIdx(s.complaints, id)
        c == s.complaints[i]
        k == StepOf(status)
        tl == markSteps(c.timeline, k)
        c2 == [c EXCEPT !.status = status, !.timeline = tl]
        s2 == [s EXCEPT !.complaints[i] = c2, !.ver = s.ver + 1]
    IN  IF status = "" THEN Refuse(s, 400, <<"status", "is", "required">>)
        ELSE IF i = 0 THEN Refuse(s, 404, MsgNotFound)
        ELSE Answer(s2, [Payload(tok, s2.ver) EXCEPT !.complaint = <<c2>>])

\* getBadge: the badge thresholds.
getBadge(points) ==
    IF points >= 1000 THEN "Gold" ELSE IF points >= 500 THEN "Silver" ELSE "Bronze"

\* awardPoints: $inc on the user, then the badge follows the new points (the
\* updated user is read with points and badge only, so its role is not seen).
awardPoints(us, uid, pts, submitted) ==
    LET u == us[uid]
        u2 == [u EXCEPT !.points = u.points + pts,
                        !.complaintsSubmitted = u.complaintsSubmitted + submitted]
    IN  [us EXCEPT ![uid] = [u2 EXCEPT !.badge = getBadge(u2.points)]]

\* Complaint.js pre-save: the counter document numbers the complaints.
HumanIdOf(n) == "JV-2026-0000" \o ToString(n)
StorageIdOf(n) == "m" \o ToString(n)

\* POST /complaints, body <<title>>: the complaint is created for the caller,
\* who is awarded 50 points and one more submitted complaint.
createComplaint(s, tok, body) ==
    LET n == s.seq + 1
        c == SeedComplaint(HumanIdOf(n), StorageIdOf(n), tok)
        s2 == [s EXCEPT !.complaints = <<c>> \o s.complaints, !.seq = n, !.ver = s.ver + 1,
                        !.users = awardPoints(s.users, tok, 50, 1)]
    IN  IF body[1] = ""
        THEN Refuse(s, 400, <<"title", "description", "and", "category", "are", "required">>)
        ELSE [Answer(s2, [Payload(tok, s2.ver) EXCEPT !.complaint = <<c>>]) EXCEPT !.http = 201]

\* PATCH /complaints/:id/resolve: every step done, and 100 points to the owner.
resolveComplaintSrv(s, tok, id) ==
    LET i == FindIdx(s.complaints, id)
        c == s.complaints[i]
        c2 == [c EXCEPT !.status = "Resolved", !.timeline = markAll(c.timeline)]
        s2 == [s EXCEPT !.complaints[i] = c2, !.ver = s.ver + 1,
                        !.users = awardPoints(s.users, c.citizenId, 100, 0)]
    IN  IF i = 0 THEN Refuse(s, 404, MsgNotFound)
        ELSE Answer(s2, [Payload(tok, s2.ver) EXCEPT !.complaint = <<c2>>])

\* supportedBy is an array: Array.prototype.includes / $ne, and $addToSet.
Has(arr, x) == \E k \in 1..Len(arr) : arr[k] = x
AddToSet(arr, x) == IF Has(arr, x) THEN arr ELSE Append(arr, x)

\* POST /complaints/:id/support: one atomic update that matches only while the
\* caller is not among the supporters; the complaint's owner is awarded 10 points.
supportComplaintSrv(s, tok, id) ==
    LET i == FindIdx(s.complaints, id)
        c == s.complaints[i]
        c2 == [c EXCEPT !.supportedBy = AddToSet(c.supportedBy, tok),
                        !.supportCount = c.supportCount + 1]
        s2 == [s EXCEPT !.complaints[i] = c2, !.ver = s.ver + 1,
                        !.users = awardPoints(s.users, c.citizenId, 10, 0)]
    IN  IF i = 0 THEN Refuse(s, 404, MsgNotFound)
        ELSE IF Has(c.supportedBy, tok) THEN Refuse(s, 400, <<"already", "supported">>)
        ELSE Answer(s2, [Payload(tok, s2.ver) EXCEPT !.supportCount = c2.supportCount])

\* POST /complaints/:id/feedback
submitFeedbackSrv(s, tok, id, fb) ==
    LET i == FindIdx(s.complaints, id)
        c == s.complaints[i]
        c2 == [c EXCEPT !.feedback = <<fb>>]
        s2 == [s EXCEPT !.complaints[i] = c2, !.ver = s.ver + 1,
                        !.users = awardPoints(s.users, tok, 25, 0)]
    IN  IF i = 0 THEN Refuse(s, 404, <<"not", "found">>)
        ELSE IF c.status # "Resolved"
             THEN Refuse(s, 400, <<"can", "only", "rate", "resolved", "complaints">>)
        ELSE IF c.citizenId # tok THEN Refuse(s, 403, <<"not", "your", "complaint">>)
        ELSE IF c.feedback # <<>> THEN Refuse(s, 400, <<"already", "submitted", "feedback">>)
        ELSE Answer(s2, [Payload(tok, s2.ver) EXCEPT !.complaint = <<c2>>])

\* DELETE /complaints/:id
deleteComplaintSrv(s, tok, id) ==
    LET i == FindIdx(s.complaints, id)
        rest == [j \in 1..(Len(s.complaints) - 1) |->
                    IF j < i THEN s.complaints[j] ELSE s.complaints[j + 1]]
        s2 == [s EXCEPT !.complaints = rest, !.ver = s.ver + 1]
    IN  IF i = 0 THEN Refuse(s, 404, <<"not", "found">>)
        ELSE Answer(s2, Payload(tok, s2.ver))

\* GET /auth/me
getMe(s, tok) == Answer(s, [Payload(tok, s.ver) EXCEPT !.user = <<s.users[tok]>>])

\* GET /users: the citizens, for an admin.
getAllCitizens(s, tok) ==
    LET ids == <<Citizen1, Citizen2>>
    IN  Answer(s, [Payload(tok, s.ver) EXCEPT !.users = [i \in 1..2 |-> s.users[ids[i]]]])

\* POST /auth/citizen/login and /auth/admin/login, body <<identity, password>>:
\* the user of that role with a matching password is answered with a fresh
\* token (tokens are named by their identity; a fresh one is valid).
MsgInvalidCredentials == <<"invalid", "credentials">>
EpLogin(role) == <<"/", "auth", "/", role, "/", "login">>

loginSrv(s, role, body) ==
    LET uid == body[1]
        s2 == [s EXCEPT !.auth[uid] = "valid"]
    IN  IF uid \notin DOMAIN s.users \/ s.auth[uid] = "gone" \/ s.users[uid].role # role
           \/ body[2] # "right"
        THEN Refuse(s, 401, MsgInvalidCredentials)
        ELSE Answer(s2, [Payload(None, s.ver) EXCEPT !.token = uid, !.user = <<s.users[uid]>>])

\* { ...x, ...y }
Spread(x, y) == [f \in DOMAIN x \cup DOMAIN y |-> IF f \in DOMAIN y THEN y[f] ELSE x[f]]

\* PATCH /users/me, body <<ward>>: findByIdAndUpdate with the allowed fields,
\* answered with the updated user.
EpProfile == <<"/", "users", "/", "me">>

updateProfile(s, tok, body) ==
    LET s2 == [s EXCEPT !.users[tok] = Spread(s.users[tok], [ward |-> body[1]]),
                        !.ver = s.ver + 1]
    IN  Answer(s2, [Payload(tok, s2.ver) EXCEPT !.user = <<s2.users[tok]>>])

MsgRouteNotFound == <<"route", "not", "found">>

\* requireRole(role): HTTP 403 with "Access denied — <role>s only".
MsgAccessDenied(role) == <<"access", "denied", role, "only">>

\* The router (routes/complaints.js, routes/auth.js) behind protect, which has
\* already accepted the bearer token tok.
Route(s, method, ep, tok, body) ==
    LET id == SplitSlash(ep, 2)
        Guarded(role, answer) ==
            IF Role(tok) # role THEN Refuse(s, 403, MsgAccessDenied(role)) ELSE answer
    IN  CASE method = "GET" /\ ep = EpStats -> Guarded("admin", getAggregate(s, tok))
          [] method = "GET" /\ ep = EpLeaderboard -> getAggregate(s, tok)
          [] method = "GET" /\ SubSeq(ep, 1, 2) = EpList /\ (Len(ep) = 2 \/ ep[3] = "?") ->
                getComplaints(s, tok)
          [] method = "GET" /\ ep = <<"/", "auth", "/", "me">> -> getMe(s, tok)
          [] method = "GET" /\ ep = <<"/", "users">> -> Guarded("admin", getAllCitizens(s, tok))
          [] method = "GET" /\ Len(ep) = 4 /\ ep[2] = "complaints" /\ ep # EpStats ->
                getComplaintById(s, tok, id)
          [] method = "POST" /\ ep = EpList ->
                Guarded("citizen", createComplaint(s, tok, body))
          [] method = "PATCH" /\ ep = EpStatus(id) ->
                Guarded("admin", updateStatus(s, tok, id, body[1]))
          [] method = "PATCH" /\ ep = EpResolve(id) ->
                Guarded("admin", resolveComplaintSrv(s, tok, id))
          [] method = "POST" /\ ep = EpSupport(id) ->
                Guarded("citizen", supportComplaintSrv(s, tok, id))
          [] method = "POST" /\ ep = EpFeedback(id) ->
                Guarded("citizen", submitFeedbackSrv(s, tok, id, body[1]))
          [] method = "DELETE" /\ ep = EpItem(id) ->
                Guarded("admin", deleteComplaintSrv(s, tok, id))
          [] method = "PATCH" /\ ep = EpProfile -> updateProfile(s, tok, body)
          [] OTHER -> Refuse(s, 404, MsgRouteNotFound)

\* protect: HTTP 401 for no bearer token, for a token that does not verify
\* and for a token whose user is no longer in the database.
MsgNoToken == <<"not", "authorized", "no", "token">>

protect(s, method, ep, tok, body) ==
    IF tok = None THEN Refuse(s, 401, MsgNoToken)
    ELSE IF s.auth[tok] = "expired" THEN Refuse(s, 401, MsgTokenInvalid)
    ELSE IF s.auth[tok] = "gone" THEN Refuse(s, 401, MsgUserNotFound)
    ELSE Route(s, method, ep, tok, body)

\* server.js: the login routes are open, /auth/me, /complaints and /users are
\* behind protect, anything else falls through to the 404 handler.
Serve(s, method, ep, tok, body) ==
    IF method = "POST" /\ ep \in {EpLogin("citizen"), EpLogin("admin")}
    THEN loginSrv(s, ep[4], body)
    ELSE IF ep[2] \in {"auth", "complaints", "users"} THEN protect(s, method, ep, tok, body)
    ELSE Refuse(s, 404, MsgRouteNotFound)

\* The network and the server between fetch() and its settlement: the request
\* is served and answered ("deliver"), fails before it reaches the server
\* ("neterr"), is served but the answer is lost ("lost"), fails in a handler's
\* catch (HTTP 500), or runs into the AbortController's timeout ("abort").
FetchKinds == {"deliver", "neterr", "lost", "http5xx", "abort"}

Fetch(kind, s, r) ==
    LET served == Serve(s, r.method, r.ep, r.tok, r.body)
        plain(a) == [srv |-> a.srv, ok |-> a.ok, http |-> a.http, data |-> a.data,
                     msg |-> a.msg, abort |-> FALSE]
    IN  CASE kind = "deliver" -> plain(served)
          [] kind = "neterr" -> plain(Refuse(s, 0, MsgFailedToFetch))
          [] kind = "lost" -> plain(Refuse(served.srv, 0, MsgFailedToFetch))
          [] kind = "http5xx" -> plain(Refuse(s, 500, MsgServerError))
          [] kind = "abort" -> [plain(Refuse(s, 0, <<>>)) EXCEPT !.abort = TRUE]

\* ----------------------------------------------------------------- gateway
IsGet(method) == method = "GET"

\* api.ts request(): isAuthError
isAuthError(msg) ==
    \/ Includes(msg, <<"401">>) \/ Includes(msg, <<"403">>)
    \/ Includes(msg, <<"unauthorized">>) \/ Includes(msg, <<"not", "authorized">>)
    \/ Includes(msg, <<"jwt">>) \/ Includes(msg, <<"token">>)

\* A getCached that takes an entry of exactly CACHE_TTL for expired.
getCachedStrict(c, key, t) ==
    IF c[key] = <<>> \/ t - c[key][1].ts >= CACHE_TTL THEN <<>> ELSE <<c[key][1].data>>

\* api.ts getCached: the entry's data while it is live; an expired entry is deleted.
getCached(c, key, t) ==
    IF c[key] = <<>> \/ t - c[key][1].ts > CACHE_TTL THEN <<>> ELSE <<c[key][1].data>>

CacheAfterGet(c, key, t) ==
    IF c[key] # <<>> /\ t - c[key][1].ts > CACHE_TTL THEN [c EXCEPT ![key] = <<>>] ELSE c

setCached(c, key, data, t) == [c EXCEPT ![key] = <<[data |-> data, ts |-> t]>>]

\* api.ts invalidateCache(...patterns)
invalidateCache(c, patterns) ==
    [k \in DOMAIN c |-> IF \E p \in patterns : Includes(k, p) THEN <<>> ELSE c[k]]

NoRes == [ok |-> FALSE, data |-> Payload(None, 0), msg |-> <<>>]
OkRes(data) == [ok |-> TRUE, data |-> data, msg |-> <<>>]
ErrRes(msg) == [ok |-> FALSE, data |-> Payload(None, 0), msg |-> msg]

\* One invocation of request(endpoint, options): tok is the bearer token read on
\* entry, retries the retries left, follow the call whose promise this one has
\* adopted; nfetch counts the fetch() calls made for it and http is the status
\* of the last answer (0: none), both kept for the properties only.
CallRec(ep, method, body, tok, retries) ==
    [ep |-> ep, method |-> method, body |-> body, tok |-> tok, retries |-> retries,
     st |-> "new", follow |-> NoCall, res |-> NoRes, nfetch |-> 0, http |-> 0]

\* The body of request() up to the point where its promise is returned, for the
\* invocation stored at index c (a new index, or the caller's own on a retry):
\* a cache hit resolves, an in-flight promise for the key is adopted, otherwise
\* fetch() is called and, for a GET, the promise is registered.
request(g, c, r, t) ==
    LET key == r.ep \o r.body
        get == IsGet(r.method)
        hit == IF get THEN getCached(g.cache, key, t) ELSE <<>>
        join == get /\ hit = <<>> /\ g.inFlight[key] # NoCall
        rec == IF hit # <<>> THEN [r EXCEPT !.st = "ok", !.res = OkRes(hit[1])]
               ELSE IF join THEN [r EXCEPT !.st = "follow", !.follow = g.inFlight[key]]
               ELSE [r EXCEPT !.st = "sent", !.nfetch = r.nfetch + 1]
    IN  [calls |-> IF c > Len(g.calls) THEN Append(g.calls, rec)
                   ELSE [g.calls EXCEPT ![c] = rec],
         cache |-> IF get THEN CacheAfterGet(g.cache, key, t) ELSE g.cache,
         inFlight |-> IF get /\ hit = <<>> /\ ~join
                      THEN [g.inFlight EXCEPT ![key] = c] ELSE g.inFlight]

\* api.ts mutate(): the cache patterns a mutation's endpoint invalidates.
IsItemMutation(ep) ==
    \E i \in 1..(Len(ep) - 5) :
        /\ ep[i] = "/" /\ ep[i + 1] = "complaints" /\ ep[i + 2] = "/"
        /\ ep[i + 3] # "/" /\ ep[i + 4] = "/"
        /\ ep[i + 5] \in {"status", "resolve", "support", "feedback"}

MutatePatterns(ep) ==
    IF IsItemMutation(ep)
    THEN {EpItem(SplitSlash(ep, 2)), <<"/", "complaints", "?">>, EpStats}
    ELSE IF Includes(ep, <<"/", "complaints">>) THEN {<<"/", "complaints">>, EpStats}
    ELSE IF Includes(ep, <<"/", "auth">>) THEN {<<"/", "auth">>}
    ELSE IF Includes(ep, <<"/", "users">>) THEN {<<"/", "users">>}
    ELSE {}

mutate(g, c, r, t) ==
    request([g EXCEPT !.cache = invalidateCache(g.cache, MutatePatterns(r.ep))], c, r, t)

\* The call whose settlement settles call c: the end of its chain of adopted
\* promises (a chain that closes on itself never settles).
RECURSIVE Final(_, _, _)
Final(cs, c, fuel) ==
    IF cs[c].st # "follow" \/ fuel = 0 THEN c ELSE Final(cs, cs[c].follow, fuel - 1)

Settled(cs, c) == cs[Final(cs, c, Len(cs))].st \in {"ok", "err"}
ResultOf(cs, c) == cs[Final(cs, c, Len(cs))].res

\* ------------------------------------------------- the client as one value
\* Handlers are functions from the client's state to the client's state; an
\* action applies one handler to Cur and commits what it returns.
Cur ==
    [now |-> now, token |-> token, cache |-> cache, inFlight |-> inFlight,
     calls |-> calls, ops |-> ops, currentUser |-> currentUser,
     currentUserRef |-> currentUserRef, complaints |-> complaints, users |-> users,
     isLoadingComplaints |-> isLoadingComplaints, isLoadingUsers |-> isLoadingUsers,
     pollTimer |-> pollTimer, timers |-> timers, lsUser |-> lsUser,
     lsComplaints |-> lsComplaints, didInit |-> didInit]

Commit(c) ==
    /\ token' = c.token /\ cache' = c.cache /\ inFlight' = c.inFlight
    /\ calls' = c.calls /\ ops' = c.ops /\ currentUser' = c.currentUser
    /\ currentUserRef' = c.currentUserRef /\ complaints' = c.complaints
    /\ users' = c.users /\ isLoadingComplaints' = c.isLoadingComplaints
    /\ isLoadingUsers' = c.isLoadingUsers /\ pollTimer' = c.pollTimer
    /\ timers' = c.timers /\ lsUser' = c.lsUser /\ lsComplaints' = c.lsComplaints
    /\ didInit' = c.didInit

Gw(c) == [calls |-> c.calls, cache |-> c.cache, inFlight |-> c.inFlight]
WithGw(c, g) == [c EXCEPT !.calls = g.calls, !.cache = g.cache, !.inFlight = g.inFlight]

\* A call of an api function from client state c: request() for a GET,
\* mutate() for the others. The new call's index is Len(c.calls) + 1.
ApiCall(c, method, ep, body) ==
    LET r == CallRec(ep, method, body, c.token, DefaultRetries)
        n == Len(c.calls) + 1
    IN  WithGw(c, IF IsGet(method) THEN request(Gw(c), n, r, c.now)
                  ELSE mutate(Gw(c), n, r, c.now))

\* An operation whose awaited call has settled runs before any timer, response
\* or user event (promise reactions are microtasks).
Ready(o) == o.pc \in {"await", "email"} /\ Settled(calls, o.call)
Quiescent == \A i \in 1..Len(ops) : ~Ready(ops[i])

\* --------------------------------------------------------- gateway actions
\* The fetch of call c settles. try: a 2xx answer is cached (GET) and returned.
\* catch: a timeout is rethrown as "timed out"; an auth failure, or a failure
\* with no retry left, is rethrown; otherwise the backoff timer is awaited.
\* finally (on return or throw): a GET's in-flight entry is deleted.
FetchSettled(c, a) ==
    LET r == calls[c]
        key == r.ep \o r.body
        get == IsGet(r.method)
        released == IF get THEN [inFlight EXCEPT ![key] = NoCall] ELSE inFlight
    IN  IF a.ok
        THEN /\ calls' = [calls EXCEPT ![c].st = "ok", ![c].res = OkRes(a.data),
                                       ![c].http = a.http]
             /\ cache' = IF get THEN setCached(cache, key, a.data, now) ELSE cache
             /\ inFlight' = released
        ELSE IF a.abort
        THEN /\ calls' = [calls EXCEPT ![c].st = "err", ![c].res = ErrRes(MsgTimedOut),
                                       ![c].http = a.http]
             /\ inFlight' = released
             /\ cache' = cache
        ELSE IF r.retries > 0 /\ ~isAuthError(a.msg)
        THEN /\ calls' = [calls EXCEPT ![c].st = "backoff", ![c].http = a.http]
             /\ UNCHANGED <<cache, inFlight>>
        ELSE /\ calls' = [calls EXCEPT ![c].st = "err", ![c].res = ErrRes(a.msg),
                                       ![c].http = a.http]
             /\ inFlight' = released
             /\ cache' = cache

FetchRespond(c, kind) ==
    /\ Quiescent
    /\ calls[c].st = "sent"
    /\ LET a == Fetch(kind, srv, calls[c])
       IN  /\ FetchSettled(c, a)
           /\ srv' = a.srv
    /\ UNCHANGED <<now, ticks, token, ops, currentUser, currentUserRef, complaints,
                   users, isLoadingComplaints, isLoadingUsers, pollTimer, timers,
                   lsUser, lsComplaints, didInit>>

\* The backoff timer of call c fires: return request(endpoint, options,
\* retries - 1), and then the finally block deletes a GET's in-flight entry.
retry(g, c, tok, t) ==
    LET r == g.calls[c]
        g1 == request(g, c, [r EXCEPT !.retries = r.retries - 1, !.tok = tok], t)
    IN  IF IsGet(r.method)
        THEN [g1 EXCEPT !.inFlight[r.ep \o r.body] = NoCall]
        ELSE g1

BackoffExpire(c) ==
    /\ Quiescent
    /\ calls[c].st = "backoff"
    /\ LET g == retry([calls |-> calls, cache |-> cache, inFlight |-> inFlight],
                      c, token, now)
       IN  /\ calls' = g.calls /\ cache' = g.cache /\ inFlight' = g.inFlight
    /\ UNCHANGED <<now, ticks, token, srv, ops, currentUser, currentUserRef,
                   complaints, users, isLoadingComplaints, isLoadingUsers, pollTimer,
                   timers, lsUser, lsComplaints, didInit>>

\* Time passes.
TickSteps == {1, CACHE_TTL, CACHE_TTL + 1}

Tick(d) ==
    /\ Quiescent
    /\ ticks < MaxTicks
    /\ now' = now + d
    /\ ticks' = ticks + 1
    /\ UNCHANGED <<token, cache, inFlight, calls, srv, ops, currentUser,
                   currentUserRef, complaints, users, isLoadingComplaints,
                   isLoadingUsers, pollTimer, timers, lsUser, lsComplaints, didInit>>

\* ------------------------------------------------------------ initial state
Identities == {Citizen1, Citizen2, Admin1}

SeedUser(uid) ==
    [_id |-> uid, role |-> Role(uid), points |-> 0, badge |-> "Bronze",
     complaintsSubmitted |-> 0]

\* The database: two complaints of two citizens, newest first; requests are
\* the handler invocations that are between two of their awaits.
SeedSrv ==
    [complaints |-> <<SeedComplaint(H2, S2, Citizen2), SeedComplaint(H1, S1, Citizen1)>>,
     users |-> [u \in Identities |-> SeedUser(u)],
     auth |-> [u \in Identities |-> "valid"],
     seq |-> 2,
     requests |-> <<>>,
     ver |-> 0]

EpMe == <<"/", "auth", "/", "me">>
EpUsers == <<"/", "users">>

\* Every signature a GET of the API can have here.
GetKeys ==
    {EpList, EpListQ, <<"/", "complaints", "?", "limit=100">>, EpStats, EpLeaderboard,
     EpItem(H1), EpItem(S1), EpMe, EpUsers}

\* ------------------------------------------------- the coordinator's helpers
CACHE_MAX_AGE == 300000


\* Every complaint and user the server sends has complaintId and _id.
normaliseComplaint(raw) == Spread(raw, [id |-> raw.complaintId])
normaliseUser(raw) == Spread(raw, [id |-> raw._id])

matchId(c, id) == id # "" /\ (c.id = id \/ c.complaintId = id \/ c._id = id)

getMongoId(cs, humanId) ==
    IF \E i \in 1..Len(cs) : matchId(cs[i], humanId)
    THEN cs[CHOOSE i \in 1..Len(cs) :
                matchId(cs[i], humanId) /\ \A j \in 1..(i - 1) : ~matchId(cs[j], humanId)]._id
    ELSE humanId

calcBadge(points) ==
    IF points >= 1000 THEN "Gold" ELSE IF points >= 500 THEN "Silver" ELSE "Bronze"

\* ls.set and ls.get of jv_complaints: the data with the time it was written;
\* an entry older than CACHE_MAX_AGE reads as nothing.
lsSet(c, list) == [c EXCEPT !.lsComplaints = <<[data |-> list, ts |-> c.now]>>]
lsGet(l, t) == IF l = <<>> \/ t - l[1].ts > CACHE_MAX_AGE THEN <<>> ELSE l[1].data

\* One call of an async function of the provider: pc is "await" while it awaits
\* the gateway call `call`, "done" once its promise has resolved, "failed" once
\* it has rejected with err. id, arg, snapshot, user and attempt are its
\* arguments and locals.
OpRec(kind) ==
    [kind |-> kind, pc |-> "await", call |-> NoCall, id |-> "", arg |-> <<>>,
     snapshot |-> <<>>, user |-> <<>>, attempt |-> 1, err |-> <<>>]

StartOp(c, o) == [c EXCEPT !.ops = Append(c.ops, [o EXCEPT !.call = Len(c.calls)])]
Finish(c, i, pc, err) == [c EXCEPT !.ops[i].pc = pc, !.ops[i].err = err]
SetTimeout(c, kind, user, attempt) ==
    [c EXCEPT !.timers = Append(c.timers, [kind |-> kind, user |-> user, attempt |-> attempt])]

EpEmail == <<"/", "notifications", "/", "resolution-email">>
Today == "today"

\* --------------------------------------------------- loading and polling
\* A loadComplaints that does not look at its in-progress flag.
loadComplaintsUnguarded(c, user, attempt) ==
    LET activeUser == IF user # <<>> THEN user ELSE c.currentUserRef
        limit == IF activeUser[1].role = "citizen" THEN "limit=100" ELSE "limit=200"
    IN  IF activeUser = <<>> THEN c
        ELSE StartOp(ApiCall([c EXCEPT !.isLoadingComplaints = TRUE], "GET",
                             <<"/", "complaints", "?", limit>>, <<>>),
                     [OpRec("loadComplaints") EXCEPT !.user = user, !.attempt = attempt])

\* loadComplaints(user, attempt), up to its await.
loadComplaints(c, user, attempt) ==
    LET activeUser == IF user # <<>> THEN user ELSE c.currentUserRef
        limit == IF activeUser[1].role = "citizen" THEN "limit=100" ELSE "limit=200"
    IN  IF c.isLoadingComplaints \/ activeUser = <<>> THEN c
        ELSE StartOp(ApiCall([c EXCEPT !.isLoadingComplaints = TRUE], "GET",
                             <<"/", "complaints", "?", limit>>, <<>>),
                     [OpRec("loadComplaints") EXCEPT !.user = user, !.attempt = attempt])

\* loadComplaints after its await: the list replaces the collection; a timeout
\* is retried after 4 s while attempt < 3; finally the flag is released.
loadComplaintsSettled(c, i) ==
    LET o == c.ops[i]
        res == ResultOf(c.calls, o.call)
        released == [c EXCEPT !.isLoadingComplaints = FALSE]
        normalised == MapSeq(res.data.complaints, normaliseComplaint)
    IN  IF res.ok
        THEN Finish(lsSet([released EXCEPT !.complaints = normalised], normalised),
                    i, "done", <<>>)
        ELSE IF Includes(res.msg, <<"timed", "out">>) /\ o.attempt < 3
        THEN Finish(SetTimeout(released, "loadComplaints", o.user, o.attempt + 1),
                    i, "done", res.msg)
        ELSE Finish(released, i, "done", res.msg)

loadUsers(c, user) ==
    LET activeUser == IF user # <<>> THEN user ELSE c.currentUserRef
    IN  IF c.isLoadingUsers THEN c
        ELSE IF activeUser = <<>> \/ activeUser[1].role # "admin"
        THEN [c EXCEPT !.users = <<>>]
        ELSE StartOp(ApiCall([c EXCEPT !.isLoadingUsers = TRUE], "GET", EpUsers, <<>>),
                     [OpRec("loadUsers") EXCEPT !.user = user])

loadUsersSettled(c, i) ==
    LET res == ResultOf(c.calls, c.ops[i].call)
        released == [c EXCEPT !.isLoadingUsers = FALSE]
    IN  IF res.ok
        THEN Finish([released EXCEPT !.users = MapSeq(res.data.users, normaliseUser)],
                    i, "done", <<>>)
        ELSE Finish(released, i, "done", res.msg)

\* startPolling(user): the interval and the user its callback closes over.
stopPolling(c) == [c EXCEPT !.pollTimer = <<>>]
startPolling(c, user) == [stopPolling(c) EXCEPT !.pollTimer = user]

\* The interval's callback.
poll(c) ==
    LET u == IF c.currentUserRef # <<>> THEN c.currentUserRef ELSE c.pollTimer
        c1 == loadComplaints(c, u, 1)
    IN  IF u[1].role = "admin" THEN loadUsers(c1, u) ELSE c1

\* A setTimeout callback: the delayed loadUsers of init, the retry of loadComplaints.
timeout(c, t) ==
    IF t.kind = "loadUsers" THEN loadUsers(c, t.user)
    ELSE loadComplaints(c, t.user, t.attempt)

\* ------------------------------------------------------------- the session
isRealAuthError(msg) ==
    \/ Includes(msg, <<"401">>) \/ Includes(msg, <<"403">>)
    \/ Includes(msg, <<"jwt", "expired">>) \/ Includes(msg, <<"token", "invalid">>)
    \/ Includes(msg, <<"token", "expired">>) \/ Includes(msg, <<"not", "authorized">>)
    \/ Includes(msg, <<"unauthorized">>)

\* removeToken(); saveUser(null); setCurrentUser(null); setComplaints([]); ls.remove
TearDown(c) ==
    [c EXCEPT !.token = None, !.lsUser = <<>>, !.currentUser = <<>>,
              !.currentUserRef = <<>>, !.complaints = <<>>, !.lsComplaints = <<>>]

\* What init and login do with the user the server has sent.
Enter(c, user) ==
    [c EXCEPT !.currentUser = user, !.currentUserRef = user, !.lsUser = user]

\* An init that shows nobody until the server has confirmed the session.
initUnpublished(c) ==
    LET c0 == [c EXCEPT !.didInit = TRUE]
        blank == [c0 EXCEPT !.currentUser = <<>>, !.currentUserRef = <<>>]
    IN  IF c.token = None THEN c0
        ELSE StartOp(ApiCall(blank, "GET", EpMe, <<>>), OpRec("init"))

\* The mount effect: init() up to the await of getMe.
init(c) ==
    LET cached == c.lsUser
        c0 == [c EXCEPT !.didInit = TRUE]
        shown == [c0 EXCEPT !.currentUser = cached, !.currentUserRef = cached]
        loading == loadComplaints(shown, cached, 1)
        staged == IF cached[1].role = "admin"
                  THEN SetTimeout(loading, "loadUsers", cached, 1) ELSE loading
        c1 == IF cached = <<>> THEN c0 ELSE startPolling(staged, cached)
    IN  IF c.token = None THEN c0
        ELSE StartOp(ApiCall(c1, "GET", EpMe, <<>>), OpRec("init"))

\* init() after the await: a fresh user replaces the restored one; a real auth
\* error tears the session down; any other error keeps what is shown.
initSettled(c, i) ==
    LET res == ResultOf(c.calls, c.ops[i].call)
        fresh == <<normaliseUser(res.data.user[1])>>
        loading == loadComplaints(Enter(c, fresh), fresh, 1)
        staged == IF fresh[1].role = "admin"
                  THEN SetTimeout(loading, "loadUsers", fresh, 1)
                  ELSE [loading EXCEPT !.users = <<>>]
    IN  IF res.ok /\ res.data.user # <<>> THEN Finish(startPolling(staged, fresh), i, "done", <<>>)
        ELSE IF res.ok THEN Finish(TearDown(c), i, "done", <<>>)
        ELSE IF isRealAuthError(res.msg) THEN Finish(TearDown(c), i, "done", res.msg)
        ELSE Finish(c, i, "done", res.msg)

\* login(email, password, role) up to its await.
login(c, uid, pw, role) ==
    LET cleared == [c EXCEPT !.cache = [k \in DOMAIN c.cache |-> <<>>], !.lsComplaints = <<>>]
    IN  StartOp(ApiCall(cleared, "POST", EpLogin(role), <<uid, pw>>),
                [OpRec("login") EXCEPT !.id = uid])

MsgNoTokenReceived == <<"login", "failed", "no", "token", "received">>

loginSettled(c, i) ==
    LET res == ResultOf(c.calls, c.ops[i].call)
        user == <<normaliseUser(res.data.user[1])>>
        entered == Enter([c EXCEPT !.token = res.data.token], user)
        roster == IF user[1].role = "admin" THEN loadUsers(entered, user)
                  ELSE [entered EXCEPT !.users = <<>>]
    IN  IF ~res.ok THEN Finish(c, i, "failed", res.msg)
        ELSE IF res.data.token = None THEN Finish(c, i, "failed", MsgNoTokenReceived)
        ELSE Finish(startPolling(loadComplaints(roster, user, 1), user), i, "done", <<>>)

logout(c) ==
    [stopPolling(c) EXCEPT !.cache = [k \in DOMAIN c.cache |-> <<>>], !.token = None,
                           !.lsUser = <<>>, !.lsComplaints = <<>>, !.currentUser = <<>>,
                           !.currentUserRef = <<>>, !.complaints = <<>>, !.users = <<>>]

\* ----------------------------------------------------------- the mutations
SetComplaints(c, list) == lsSet([c EXCEPT !.complaints = list], list)
MapMatching(cs, id, F(_)) == [k \in 1..Len(cs) |-> IF matchId(cs[k], id) THEN F(cs[k]) ELSE cs[k]]
Replace(cs, id, x) == [k \in 1..Len(cs) |-> IF matchId(cs[k], id) THEN x ELSE cs[k]]

\* A catch block that rethrows without restoring anything.
rollbackNothing(c, i) == c

\* The catch block of the three optimistic mutations.
rollback(c, i) == SetComplaints(c, c.ops[i].snapshot)

updateComplaintStatus(c, id, status) ==
    LET snapshot == c.complaints
        Edit(x) == Spread(x, [status |-> status, updatedAt |-> Today])
        c1 == SetComplaints(c, MapMatching(snapshot, id, Edit))
    IN  StartOp(ApiCall(c1, "PATCH", EpStatus(getMongoId(snapshot, id)), <<status>>),
                [OpRec("updateComplaintStatus") EXCEPT
                    !.id = id, !.arg = <<status>>, !.snapshot = snapshot])

\* The server's complaint replaces the item (updateComplaintStatus, submitFeedback).
adopt(c, i, res) ==
    IF res.data.complaint = <<>> THEN c
    ELSE SetComplaints(c, Replace(c.complaints, c.ops[i].id,
                                  normaliseComplaint(res.data.complaint[1])))

updateComplaintStatusSettled(c, i) ==
    LET res == ResultOf(c.calls, c.ops[i].call)
    IN  IF res.ok THEN Finish(adopt(c, i, res), i, "done", <<>>)
        ELSE Finish(rollback(c, i), i, "failed", res.msg)

resolveComplaint(c, id) ==
    LET snapshot == c.complaints
        Edit(x) == Spread(x, [status |-> "Resolved", updatedAt |-> Today])
        c1 == SetComplaints(c, MapMatching(snapshot, id, Edit))
    IN  StartOp(ApiCall(c1, "PATCH", EpResolve(getMongoId(snapshot, id)), <<>>),
                [OpRec("resolveComplaint") EXCEPT !.id = id, !.snapshot = snapshot])

\* resolveComplaint after the await of complaintAPI.resolve: on success the
\* resolution email is sent and awaited; its failure is swallowed.
resolveComplaintSettled(c, i) ==
    LET res == ResultOf(c.calls, c.ops[i].call)
        c1 == ApiCall(adopt(c, i, res), "POST", EpEmail, <<>>)
    IN  IF c.ops[i].pc = "email" THEN Finish(c, i, "done", <<>>)
        ELSE IF res.ok
        THEN [c1 EXCEPT !.ops[i].pc = "email", !.ops[i].call = Len(c1.calls)]
        ELSE Finish(rollback(c, i), i, "failed", res.msg)

deleteComplaint(c, id) ==
    LET snapshot == c.complaints
        Keep(x) == ~matchId(x, id)
        c1 == SetComplaints(c, SelectSeq(snapshot, Keep))
    IN  StartOp(ApiCall(c1, "DELETE", EpItem(getMongoId(snapshot, id)), <<>>),
                [OpRec("deleteComplaint") EXCEPT !.id = id, !.snapshot = snapshot])

deleteComplaintSettled(c, i) ==
    LET res == ResultOf(c.calls, c.ops[i].call)
    IN  IF res.ok THEN Finish(c, i, "done", <<>>)
        ELSE Finish(rollback(c, i), i, "failed", res.msg)

supportComplaint(c, id) ==
    LET apiId == getMongoId(c.complaints, id)
        Inc(x) == [x EXCEPT !.supportCount = x.supportCount + 1]
        c1 == [c EXCEPT !.complaints = MapMatching(c.complaints, id, Inc)]
    IN  StartOp(ApiCall(c1, "POST", EpSupport(apiId), <<>>),
                [OpRec("supportComplaint") EXCEPT !.id = id])

\* On success the server's count is adopted; on failure the count of whatever
\* the collection now holds is decremented: Math.max(0, (supportCount || 1) - 1).
supportComplaintSettled(c, i) ==
    LET res == ResultOf(c.calls, c.ops[i].call)
        id == c.ops[i].id
        Set(x) == [x EXCEPT !.supportCount = res.data.supportCount]
        Max0(n) == IF n < 0 THEN 0 ELSE n
        Dec(x) == [x EXCEPT !.supportCount =
                       Max0((IF x.supportCount = 0 THEN 1 ELSE x.supportCount) - 1)]
    IN  IF res.ok
        THEN Finish([c EXCEPT !.complaints = MapMatching(c.complaints, id, Set)],
                    i, "done", <<>>)
        ELSE Finish([c EXCEPT !.complaints = MapMatching(c.complaints, id, Dec)],
                    i, "failed", res.msg)

submitFeedback(c, id, fb) ==
    StartOp(ApiCall(c, "POST", EpFeedback(getMongoId(c.complaints, id)), <<fb>>),
            [OpRec("submitFeedback") EXCEPT !.id = id, !.arg = <<fb>>])

\* submitFeedback after its await: the error propagates; on success the
\* complaint is adopted and the user gets 25 points client-side.
submitFeedbackSettled(c, i) ==
    LET res == ResultOf(c.calls, c.ops[i].call)
        c1 == adopt(c, i, res)
        u == c1.currentUser[1]
        pts == u.points + 25
        updated == <<[u EXCEPT !.points = pts, !.badge = calcBadge(pts)]>>
    IN  IF ~res.ok THEN Finish(c, i, "failed", res.msg)
        ELSE IF c1.currentUser = <<>> THEN Finish(c1, i, "done", <<>>)
        ELSE Finish(Enter(c1, updated), i, "done", <<>>)

\* addComplaint(data) up to its await; data is modelled by its title.
addComplaint(c, title) ==
    StartOp(ApiCall(c, "POST", EpList, <<title>>), OpRec("addComplaint"))

\* An addComplaint that counts the complaint as submitted whatever the answer.
addComplaintSettledEager(c, i) ==
    LET u == c.currentUser[1]
        updated == <<Spread(u, [points |-> u.points + 50,
                                complaintsSubmitted |-> u.complaintsSubmitted + 1])>>
    IN  Finish([c EXCEPT !.currentUser = updated, !.currentUserRef = updated,
                         !.lsUser = updated], i, "done", <<>>)

\* addComplaint after its await: the error propagates; on success the server's
\* complaint is put first and the user gets 50 points and one more submission.
addComplaintSettled(c, i) ==
    LET res == ResultOf(c.calls, c.ops[i].call)
        x == normaliseComplaint(res.data.complaint[1])
        c1 == SetComplaints(c, <<x>> \o c.complaints)
        u == c.currentUser[1]
        pts == u.points + 50
        updated == <<Spread(u, [points |-> pts, badge |-> calcBadge(pts),
                                complaintsSubmitted |-> u.complaintsSubmitted + 1])>>
        c2 == IF c.currentUser = <<>> THEN c1
              ELSE [c1 EXCEPT !.currentUser = updated, !.currentUserRef = updated,
                              !.lsUser = updated]
    IN  IF ~res.ok THEN Finish(c, i, "failed", res.msg)
        ELSE IF res.data.complaint = <<>> THEN Finish(c, i, "done", <<>>)
        ELSE Finish(c2, i, "done", <<>>)

\* The continuation of operation i.
\* updateUser(updates), up to its await: the optimistic user is shown, kept in
\* the reference and saved. (snapshot is the user before the call; the code
\* keeps no such copy, it is recorded for the properties.)
updateUser(c, ward) ==
    LET optimistic == <<Spread(c.currentUser[1], [ward |-> ward])>>
    IN  StartOp(ApiCall(Enter(c, optimistic), "PATCH", EpProfile, <<ward>>),
                [OpRec("updateUser") EXCEPT !.arg = <<ward>>, !.snapshot = c.currentUser])

\* updateUser after its await: the server's user replaces the optimistic one;
\* the catch block is empty and the function returns normally.
updateUserSettled(c, i) ==
    LET res == ResultOf(c.calls, c.ops[i].call)
    IN  IF res.ok /\ res.data.user # <<>>
        THEN Finish(Enter(c, <<normaliseUser(res.data.user[1])>>), i, "done", <<>>)
        ELSE Finish(c, i, "done", <<>>)

\* The citizen page's handleRefresh: setRefreshing(true); await
\* refreshComplaints(). refreshComplaints is loadComplaints(): when the flag is
\* set its promise is fulfilled at once, otherwise when loadComplaints returns.
handleRefresh(c) ==
    LET started == loadComplaints(c, <<>>, 1)
    IN  IF Len(started.ops) = Len(c.ops)
        THEN [c EXCEPT !.ops = Append(c.ops, [OpRec("handleRefresh") EXCEPT !.pc = "done"])]
        ELSE StartOp(started, OpRec("handleRefresh"))

\* After the await: setRefreshing(false) and the toast.
handleRefreshSettled(c, i) == Finish(c, i, "done", <<>>)

resume(c, i) ==
    LET kind == c.ops[i].kind
    IN  CASE kind = "loadComplaints" -> loadComplaintsSettled(c, i)
          [] kind = "loadUsers" -> loadUsersSettled(c, i)
          [] kind = "init" -> initSettled(c, i)
          [] kind = "login" -> loginSettled(c, i)
          [] kind = "updateComplaintStatus" -> updateComplaintStatusSettled(c, i)
          [] kind = "resolveComplaint" -> resolveComplaintSettled(c, i)
          [] kind = "deleteComplaint" -> deleteComplaintSettled(c, i)
          [] kind = "supportComplaint" -> supportComplaintSettled(c, i)
          [] kind = "submitFeedback" -> submitFeedbackSettled(c, i)
          [] kind = "addComplaint" -> addComplaintSettled(c, i)
          [] kind = "handleRefresh" -> handleRefreshSettled(c, i)
          [] kind = "updateUser" -> updateUserSettled(c, i)

\* ------------------------------------------------------ coordinator actions
ClientStep(c) == (\E v \in {c} : Commit(v)) /\ UNCHANGED <<now, ticks, srv>>

\* User events and timers are tasks: they run when no promise reaction is due.
MayStart == Quiescent

\* The explored behaviours start at most o operations and k gateway calls.
Within(o, k) == Len(ops) < o /\ Len(calls) < k

\* Promise reactions run in the order the operations began to wait.
Resume ==
    \E i \in 1..Len(ops) :
        /\ Ready(ops[i])
        /\ \A j \in 1..(i - 1) : ~Ready(ops[j])
        /\ ClientStep(resume(Cur, i))

Mount == Quiescent /\ ~didInit /\ ClientStep(init(Cur))
Login(uid, role) == MayStart /\ ClientStep(login(Cur, uid, "right", role))
Logout == Quiescent /\ currentUser # <<>> /\ ClientStep(logout(Cur))
RefreshComplaints == MayStart /\ ClientStep(loadComplaints(Cur, <<>>, 1))
PollTick == MayStart /\ pollTimer # <<>> /\ ClientStep(poll(Cur))
TimerFire ==
    \E k \in 1..Len(timers) :
        /\ Quiescent
        /\ ClientStep(timeout([Cur EXCEPT !.timers =
                                   [j \in 1..(Len(timers) - 1) |->
                                       IF j < k THEN timers[j] ELSE timers[j + 1]]],
                              timers[k]))
UpdateComplaintStatus(id, status) == MayStart /\ ClientStep(updateComplaintStatus(Cur, id, status))
ResolveComplaint(id) == MayStart /\ ClientStep(resolveComplaint(Cur, id))
DeleteComplaint(id) == MayStart /\ ClientStep(deleteComplaint(Cur, id))
SupportComplaint(id) == MayStart /\ ClientStep(supportComplaint(Cur, id))
SubmitFeedback(id, fb) == MayStart /\ ClientStep(submitFeedback(Cur, id, fb))
AddComplaint(title) == MayStart /\ ClientStep(addComplaint(Cur, title))
HandleRefresh == MayStart /\ ClientStep(handleRefresh(Cur))
UpdateUser(ward) == MayStart /\ currentUser # <<>> /\ ClientStep(updateUser(Cur, ward))

\* -------------------------------------------------- the gateway on its own
\* Components call the exported api functions directly: GETs through
\* request(), the others through mutate().
RawGets == {EpList, EpListQ, EpStats, EpLeaderboard, EpItem(H1), EpItem(S1)}

RawMutations ==
    {[method |-> "PATCH", ep |-> EpResolve(S1), body |-> <<>>],
     [method |-> "PATCH", ep |-> EpStatus(S1), body |-> <<"In Progress">>],
     [method |-> "DELETE", ep |-> EpItem(S1), body |-> <<>>]}

ApiGet(k) ==
    /\ Quiescent
    /\ Len(calls) < MaxCalls
    /\ Commit(ApiCall(Cur, "GET", k, <<>>))
    /\ UNCHANGED <<now, ticks, srv>>

ApiMutate(m) ==
    /\ Quiescent
    /\ Len(calls) < MaxCalls
    /\ Commit(ApiCall(Cur, m.method, m.ep, m.body))
    /\ UNCHANGED <<now, ticks, srv>>

\* What the gateway meets on its own: answers (of a server that may have
\* stopped accepting the token), transport failures and timeouts.
GatewayKinds == {"deliver", "neterr", "abort"}

\* The cache is cold, or warm: every signature was fetched at time 0.
WarmCache ==
    [k \in GetKeys |->
        IF k \in RawGets
        THEN <<[data |-> protect(SeedSrv, "GET", k, Admin1, <<>>).data, ts |-> 0]>>
        ELSE <<>>]

InitGateway ==
    /\ now = 0 /\ ticks = 0
    /\ cache \in {[k \in GetKeys |-> <<>>], WarmCache}
    /\ inFlight = [k \in GetKeys |-> NoCall]
    /\ calls = <<>>
    /\ ops = <<>>
    /\ isLoadingComplaints = FALSE /\ isLoadingUsers = FALSE
    /\ pollTimer = <<>> /\ timers = <<>>
    /\ users = <<>>
    /\ srv \in {SeedSrv, [SeedSrv EXCEPT !.auth[Admin1] = "expired"]}
    /\ token = Admin1
    /\ currentUser = <<SeedUser(Admin1)>> /\ currentUserRef = currentUser
    /\ lsUser = currentUser
    /\ complaints = <<>> /\ lsComplaints = <<>>
    /\ didInit = TRUE

NextGateway ==
    \/ \E k \in RawGets : ApiGet(k)
    \/ \E m \in RawMutations : ApiMutate(m)
    \/ \E c \in 1..Len(calls), kind \in GatewayKinds : FetchRespond(c, kind)
    \/ \E c \in 1..Len(calls) : BackoffExpire(c)
    \/ \E d \in TickSteps : Tick(d)

SpecGateway == InitGateway /\ [][NextGateway]_vars

\* ------------------------------------------------------------ the gateway's claims
CallIds == 1..Len(calls)
EndOf(c) == calls[Final(calls, c, Len(calls))]
Joined(j, c) == j # c /\ calls[j].st = "follow" /\ calls[j].follow = c

\* C1: GETs of one signature made while another is in flight and nothing is
\* cached share one fetch (the callers that join issue none, the one they join
\* issues exactly one, and no second fetch for the signature is outstanding),
\* and all of them settle, with the outcome of that fetch.
C1_Coalescing ==
    /\ \A k \in GetKeys :
          Cardinality({c \in CallIds : /\ IsGet(calls[c].method) /\ calls[c].ep = k
                                       /\ calls[c].st \in {"sent", "backoff"}}) <= 1
    /\ \A c \in CallIds, j \in CallIds :
          Joined(j, c) =>
            /\ calls[j].nfetch = 0
            /\ calls[c].nfetch = 1
            /\ EndOf(j).st \in {"sent", "backoff", "ok", "err"}
            /\ Settled(calls, c) => ResultOf(calls, j) = ResultOf(calls, c)

\* C2: every request() reaches a terminal state: at any time it has resolved
\* or rejected, or a fetch or a backoff timer whose completion settles it is
\* still pending.
C2_RequestTerminates ==
    \A c \in CallIds : EndOf(c).st \in {"sent", "backoff", "ok", "err"}

\* C3: a failure that is not an authentication failure is followed by exactly
\* one further fetch: every retry taken has issued a fetch, no request issues
\* more than two, and one rejected with such an error (other than the
\* gateway's own timeout) has issued exactly two.
C3_RetriesExactlyOnce ==
    \A c \in CallIds :
        /\ calls[c].nfetch <= 2
        /\ calls[c].retries < DefaultRetries =>
              calls[c].nfetch = 1 + (DefaultRetries - calls[c].retries)
        /\ (/\ calls[c].st = "err"
            /\ ~isAuthError(calls[c].res.msg)
            /\ calls[c].res.msg # MsgTimedOut) => calls[c].nfetch = 2

IssuesMutation ==
    /\ Len(calls') = Len(calls) + 1
    /\ ~IsGet(calls'[Len(calls')].method)

MutationFails ==
    \E c \in CallIds :
        /\ ~IsGet(calls[c].method)
        /\ calls[c].st = "sent"
        /\ calls'[c].st \in {"backoff", "err"}

\* C6: a mutation changes the cache only once its call has succeeded: issuing
\* it removes no entry, and a failing answer removes none.
C6_InvalidatesOnlyAfterSuccess ==
    [][(IssuesMutation \/ MutationFails) => cache' = cache]_vars

StatusChangeSucceeds ==
    \E c \in CallIds :
        /\ calls[c].ep \in {EpResolve(S1), EpStatus(S1)}
        /\ calls[c].st = "sent"
        /\ calls'[c].st = "ok"

\* C7: when a resolve or status change of the complaint with ids H1 and S1
\* succeeds, no live entry is left for the item (under either id), a complaint
\* list (with or without a query string) or the stats, and the leaderboard's
\* entry is as it was.
C7_InvalidatesItemListStats ==
    [][StatusChangeSucceeds =>
          /\ \A k \in {EpItem(H1), EpItem(S1), EpList, EpListQ, EpStats} :
                getCached(cache', k, now) = <<>>
          /\ cache'[EpLeaderboard] = cache[EpLeaderboard]]_vars

\* ------------------------------------------------- an admin at the dashboard
NormList(s, tok) == MapSeq(getComplaints(s, tok).data.complaints, normaliseComplaint)

\* A session that has finished loading: the collection and its stored copy
\* hold the server's list, nothing is in flight, and the cache has expired.
InitSession(uid, s) ==
    /\ now = 0 /\ ticks = 0
    /\ cache = [k \in GetKeys |-> <<>>]
    /\ inFlight = [k \in GetKeys |-> NoCall]
    /\ calls = <<>> /\ ops = <<>> /\ timers = <<>>
    /\ isLoadingComplaints = FALSE /\ isLoadingUsers = FALSE
    /\ token = uid
    /\ currentUser = <<normaliseUser(s.users[uid])>>
    /\ currentUserRef = currentUser /\ lsUser = currentUser
    /\ pollTimer = currentUser
    /\ complaints = NormList(s, uid)
    /\ lsComplaints = <<[data |-> NormList(s, uid), ts |-> 0]>>
    /\ users = IF Role(uid) = "admin"
               THEN MapSeq(getAllCitizens(s, uid).data.users, normaliseUser) ELSE <<>>
    /\ didInit = TRUE
    /\ srv = s

MutationKinds == {"deliver", "neterr", "abort"}

MaxRollbackOps == 2
MaxRollbackCalls == 3

InitRollback == InitSession(Admin1, SeedSrv)

NextRollback ==
    \/ \E id \in {H1, S2}, status \in {"In Progress", "Resolved"} :
            Within(MaxRollbackOps, MaxRollbackCalls) /\ UpdateComplaintStatus(id, status)
    \/ \E id \in {H1, S2} :
            Within(MaxRollbackOps, MaxRollbackCalls) /\ ResolveComplaint(id)
    \/ \E id \in {H1, S2} :
            Within(MaxRollbackOps, MaxRollbackCalls) /\ DeleteComplaint(id)
    \/ \E c \in 1..Len(calls), kind \in MutationKinds : FetchRespond(c, kind)
    \/ \E c \in 1..Len(calls) : BackoffExpire(c)
    \/ Resume

SpecRollback == InitRollback /\ [][NextRollback]_vars

Optimistic == {"updateComplaintStatus", "resolveComplaint", "deleteComplaint"}

\* C4: updateComplaintStatus, resolveComplaint and deleteComplaint take the
\* list L they are called on as their snapshot, and when the gateway call of
\* one of them fails, the collection and its stored copy are exactly L again
\* and the operation rejects with the gateway's error.
C4_RollbackRestoresSnapshot ==
    [][/\ (Len(ops') = Len(ops) + 1 /\ ops'[Len(ops')].kind \in Optimistic) =>
              ops'[Len(ops')].snapshot = complaints
       /\ \A i \in 1..Len(ops) :
              (/\ ops[i].kind \in Optimistic
               /\ ops[i].pc = "await"
               /\ ops'[i].pc # "await"
               /\ ~ResultOf(calls, ops[i].call).ok) =>
                  /\ complaints' = ops[i].snapshot
                  /\ lsComplaints'[1].data = ops[i].snapshot
                  /\ ops'[i].pc = "failed"
                  /\ ops'[i].err = ResultOf(calls, ops[i].call).msg]_vars

\* An updateComplaintStatus on the loaded list has been rejected by the gateway
\* after its retries, and the collection is the loaded list again.
C4_Witness ==
    \E i \in 1..Len(ops) :
        /\ ops[i].kind = "updateComplaintStatus"
        /\ ops[i].pc = "failed"
        /\ ops[i].err = MsgFailedToFetch
        /\ ops[i].snapshot = NormList(SeedSrv, Admin1)
        /\ complaints = NormList(SeedSrv, Admin1)

\* --------------------------------------------------- one browser, two people
MaxSessionOps == 3
MaxSessionCalls == 3

SessionKinds == {"deliver", "neterr"}

InitSwitch == InitSession(Citizen1, SeedSrv)

NextSwitch ==
    \/ Within(MaxSessionOps, MaxSessionCalls) /\ RefreshComplaints
    \/ Within(MaxSessionOps, MaxSessionCalls) /\ Login(Citizen2, "citizen")
    \/ Logout
    \/ \E c \in 1..Len(calls), kind \in SessionKinds : FetchRespond(c, kind)
    \/ \E c \in 1..Len(calls) : BackoffExpire(c)
    \/ Resume

SpecSwitch == InitSwitch /\ [][NextSwitch]_vars

\* C5: once a login for identity B has succeeded, every GET made with B's
\* token that has been answered was answered with a payload fetched with B's
\* token, and the collection of a citizen B holds B's complaints only.
C5_NoLeakAcrossLogin ==
    \A i \in 1..Len(ops) :
        (ops[i].kind = "login" /\ ops[i].pc = "done" /\ token = ops[i].id) =>
            /\ \A c \in CallIds :
                  (/\ IsGet(calls[c].method) /\ calls[c].tok = ops[i].id
                   /\ Settled(calls, c) /\ ResultOf(calls, c).ok) =>
                      ResultOf(calls, c).data.tok = ops[i].id
            /\ Role(ops[i].id) = "citizen" =>
                  \A k \in 1..Len(complaints) : complaints[k].citizenId = ops[i].id

\* ------------------------------------------------ a citizen and one complaint
\* Citizen1's complaint H1 (the second in the database) has one supporter.
BaseCount == 1

SupportedSrv ==
    [SeedSrv EXCEPT !.complaints[2].supportCount = BaseCount,
                    !.complaints[2].supportedBy = <<Citizen2>>,
                    !.users = awardPoints(SeedSrv.users, Citizen1, 10, 0)]

MaxSupportOps == 3
MaxSupportCalls == 2

InitSupport == InitSession(Citizen1, SupportedSrv)

NextSupport ==
    \/ Within(MaxSupportOps, MaxSupportCalls) /\ SupportComplaint(H1)
    \/ Within(MaxSupportOps, MaxSupportCalls) /\ RefreshComplaints
    \/ \E c \in 1..Len(calls), kind \in SessionKinds : FetchRespond(c, kind)
    \/ \E c \in 1..Len(calls) : BackoffExpire(c)
    \/ Resume

SpecSupport == InitSupport /\ [][NextSupport]_vars

Supports(pc) == {i \in 1..Len(ops) : ops[i].kind = "supportComplaint" /\ ops[i].pc = pc}

\* C8: once every operation has finished, the local supportCount of H1 is the
\* count it had plus one for each supportComplaint that succeeded: a failed
\* call has left it as if it had not been made, whatever ran in between.
C8_FailedSupportLeavesCount ==
    (/\ \A i \in 1..Len(ops) : ops[i].pc \in {"done", "failed"}
     /\ \E k \in 1..Len(complaints) : matchId(complaints[k], H1)) =>
        \A k \in 1..Len(complaints) :
            matchId(complaints[k], H1) =>
                complaints[k].supportCount = BaseCount + Cardinality(Supports("done"))

\* H1 is not yet resolved, is resolved, or is resolved and rated.
Rating == "5 stars"

FeedbackSrvs ==
    LET resolved == resolveComplaintSrv(SeedSrv, Admin1, H1).srv
    IN  {SeedSrv, resolved, submitFeedbackSrv(resolved, Citizen1, H1, Rating).srv}

MaxFeedbackOps == 2
MaxFeedbackCalls == 2

InitFeedback == \E s \in FeedbackSrvs : InitSession(Citizen1, s)

NextFeedback ==
    \/ \E id \in {H1, S1} :
            Within(MaxFeedbackOps, MaxFeedbackCalls) /\ SubmitFeedback(id, Rating)
    \/ \E c \in 1..Len(calls), kind \in SessionKinds : FetchRespond(c, kind)
    \/ \E c \in 1..Len(calls) : BackoffExpire(c)
    \/ Resume

SpecFeedback == InitFeedback /\ [][NextFeedback]_vars

Rateable(cs, id) ==
    \E k \in 1..Len(cs) :
        matchId(cs[k], id) /\ cs[k].status = "Resolved" /\ cs[k].feedback = <<>>

FeedbackSucceeds ==
    \E i \in 1..Len(ops) :
        ops[i].kind = "submitFeedback" /\ ops[i].pc = "await" /\ ops'[i].pc = "done"

\* C9: a submitFeedback on a complaint that is locally not Resolved, or already
\* rated, rejects without a gateway call; and the user's points change only
\* when a submitFeedback succeeds, by 25.
C9_FeedbackCheckedLocally ==
    [][/\ (/\ Len(ops') = Len(ops) + 1
           /\ ops'[Len(ops')].kind = "submitFeedback"
           /\ ~Rateable(complaints, ops'[Len(ops')].id)) =>
              (calls' = calls /\ ops'[Len(ops')].pc = "failed")
       /\ currentUser'[1].points =
              currentUser[1].points + (IF FeedbackSucceeds THEN 25 ELSE 0)]_vars

\* ------------------------------------------------------------- a cold start
\* The page is loaded with a stored token and user, and with or without a
\* stored list; the server accepts the token, or finds it expired, or no
\* longer has the user.
MaxColdOps == 4
MaxColdCalls == 4

ColdKinds == {"deliver", "neterr", "abort"}

InitCold ==
    \E uid \in {Citizen1, Admin1} :
    \E state \in {"valid", "expired", "gone"},
       stored \in {<<>>, <<[data |-> NormList(SeedSrv, uid), ts |-> 0]>>} :
        /\ now = 0 /\ ticks = 0
        /\ cache = [k \in GetKeys |-> <<>>]
        /\ inFlight = [k \in GetKeys |-> NoCall]
        /\ calls = <<>> /\ ops = <<>> /\ timers = <<>>
        /\ isLoadingComplaints = FALSE /\ isLoadingUsers = FALSE
        /\ token = uid
        /\ lsUser = <<normaliseUser(SeedSrv.users[uid])>>
        /\ currentUser = lsUser /\ currentUserRef = lsUser
        /\ lsComplaints = stored
        /\ complaints = lsGet(stored, 0)
        /\ users = <<>> /\ pollTimer = <<>>
        /\ didInit = FALSE
        /\ srv = [SeedSrv EXCEPT !.auth[uid] = state]

NextCold ==
    \/ Mount
    \/ Within(MaxColdOps, MaxColdCalls) /\ PollTick
    \/ Within(MaxColdOps, MaxColdCalls) /\ TimerFire
    \/ \E c \in 1..Len(calls), kind \in ColdKinds : FetchRespond(c, kind)
    \/ \E c \in 1..Len(calls) : BackoffExpire(c)
    \/ Resume

SpecCold == InitCold /\ [][NextCold]_vars

TornDown ==
    /\ token = None /\ lsUser = <<>> /\ currentUser = <<>>
    /\ complaints = <<>> /\ lsComplaints = <<>>

\* C10: once the gateway is through with init's /auth/me call and init has
\* reacted: if the call was answered with HTTP 401 or 403 the session is torn
\* down (no token, no stored user, no current user, no complaints); if it met
\* a network-level failure the token and the restored user are still there.
C10_RevalidationFailure ==
    \A i \in 1..Len(ops) :
        (/\ ops[i].kind = "init"
         /\ Quiescent
         /\ calls[ops[i].call].st \notin {"sent", "backoff"}) =>
            /\ calls[ops[i].call].http \in {401, 403} => TornDown
            /\ (calls[ops[i].call].http = 0 /\ calls[ops[i].call].nfetch > 0) =>
                  (token # None /\ lsUser # <<>> /\ currentUser # <<>>)

\* ------------------------------------------------ loads from every trigger
\* A cold start with an admin's valid stored session, the poll interval, and
\* once the mount effect has run: manual refreshes, a login, and the timers of
\* init and of the timed-out loads.
MaxLoadOps == 4
MaxLoadCalls == 4

InitLoads ==
    \E uid \in {Admin1} :
        /\ now = 0 /\ ticks = 0
        /\ cache = [k \in GetKeys |-> <<>>]
        /\ inFlight = [k \in GetKeys |-> NoCall]
        /\ calls = <<>> /\ ops = <<>> /\ timers = <<>>
        /\ isLoadingComplaints = FALSE /\ isLoadingUsers = FALSE
        /\ token = uid
        /\ lsUser = <<normaliseUser(SeedSrv.users[uid])>>
        /\ currentUser = lsUser /\ currentUserRef = lsUser
        /\ lsComplaints = <<>> /\ complaints = <<>>
        /\ users = <<>> /\ pollTimer = <<>>
        /\ didInit = FALSE
        /\ srv = SeedSrv

NextLoads ==
    \/ Mount
    \/ Within(MaxLoadOps, MaxLoadCalls) /\ PollTick
    \/ Within(MaxLoadOps, MaxLoadCalls) /\ TimerFire
    \/ didInit /\ Within(MaxLoadOps, MaxLoadCalls) /\ RefreshComplaints
    \/ didInit /\ Within(MaxLoadOps, MaxLoadCalls) /\ Login(Admin1, "admin")
    \/ \E c \in 1..Len(calls), kind \in ColdKinds : FetchRespond(c, kind)
    \/ \E c \in 1..Len(calls) : BackoffExpire(c)
    \/ Resume

SpecLoads == InitLoads /\ [][NextLoads]_vars

IsListLoad(ep) == Len(ep) = 4 /\ SubSeq(ep, 1, 3) = <<"/", "complaints", "?">>
Outstanding(c) == calls[c].st \in {"sent", "backoff"}
Awaiting(kind) == {i \in 1..Len(ops) : ops[i].kind = kind /\ ops[i].pc = "await"}

\* C11: at any instant at most one loadComplaints and at most one loadUsers
\* is waiting for the gateway, and at most one fetch of the complaint list and
\* at most one fetch of the roster is outstanding.
C11_OneLoadAtATime ==
    /\ Cardinality(Awaiting("loadComplaints")) <= 1
    /\ Cardinality(Awaiting("loadUsers")) <= 1
    /\ Cardinality({c \in CallIds : Outstanding(c) /\ IsListLoad(calls[c].ep)}) <= 1
    /\ Cardinality({c \in CallIds : Outstanding(c) /\ calls[c].ep = EpUsers}) <= 1

\* A poll tick has come while a manual refresh was waiting for its answer, a
\* load has been answered, and a later load is outstanding.
C11_Witness ==
    /\ isLoadingComplaints
    /\ Cardinality(Awaiting("loadComplaints")) = 1
    /\ \E i \in 1..Len(ops) : ops[i].kind = "loadComplaints" /\ ops[i].pc = "done"
    /\ \E c \in CallIds : Outstanding(c) /\ IsListLoad(calls[c].ep)
    /\ \E c \in CallIds : Outstanding(c) /\ calls[c].ep = EpUsers

\* ------------------------------------------- authentication failures
Answered(c) == calls[c].st = "sent" /\ calls'[c].st # "sent"

\* C12: a request answered with HTTP 401 or 403 is rejected there and then:
\* no retry is scheduled for it and no further fetch is issued.
C12_AuthFailureNotRetried ==
    [][\A c \in CallIds :
          (Answered(c) /\ calls'[c].http \in {401, 403}) =>
              (calls'[c].st = "err" /\ calls'[c].nfetch = calls[c].nfetch)]_vars

\* ------------------------------------------------ a citizen files complaints
MaxAddOps == 3
MaxAddCalls == 3

AddKinds == {"deliver", "neterr", "lost"}

InitAdd == InitSession(Citizen1, SeedSrv)

NextAdd ==
    \/ \E title \in {"pothole", ""} : Within(MaxAddOps, MaxAddCalls) /\ AddComplaint(title)
    \/ Within(MaxAddOps, MaxAddCalls) /\ RefreshComplaints
    \/ \E c \in 1..Len(calls), kind \in AddKinds : FetchRespond(c, kind)
    \/ \E c \in 1..Len(calls) : BackoffExpire(c)
    \/ Resume

SpecAdd == InitAdd /\ [][NextAdd]_vars

AddSettles(i) ==
    i \in 1..Len(ops) /\ ops[i].kind = "addComplaint" /\ ops[i].pc = "await"
                      /\ ops'[i].pc # "await"

LoadingSeed(tok, stored) == tok # None /\ stored = <<>>

\* ProtectedRoute: what a route that asks for a role renders.
ProtectedRoute(role, user, loading) ==
    IF loading THEN "spinner"
    ELSE IF user = <<>> THEN "login"
    ELSE IF user[1].role # role THEN "other portal"
    ELSE "children"

Revalidating == \E i \in 1..Len(ops) : ops[i].kind = "init" /\ ops[i].pc = "await"

\* C14: on a cold start with a stored token and user, from the first state on
\* and for as long as the /auth/me call of init is pending, the current user is
\* the stored user and a route that asks for that user's role renders its
\* children (no spinner, no redirect).
C14_RestoredBeforeRevalidation ==
    (~didInit \/ Revalidating) =>
        /\ currentUser = <<normaliseUser(SeedSrv.users[token])>>
        /\ currentUser = lsUser
        /\ ProtectedRoute(Role(token), currentUser, LoadingSeed(token, lsUser)) = "children"

\* The revalidation of an admin's restored session is still pending while the
\* first load of the complaints has already been answered.
C14_Witness ==
    /\ Revalidating
    /\ token = Admin1
    /\ currentUser # <<>> /\ currentUser[1].role = "admin"
    /\ \E i \in 1..Len(ops) : ops[i].kind = "loadComplaints" /\ ops[i].pc = "done"
    /\ \E c \in CallIds : calls[c].ep = EpMe /\ calls[c].st = "sent"

\* ----------------------------------------------------------- cache lifetime
IssuesGet ==
    /\ Len(calls') = Len(calls) + 1
    /\ IsGet(calls'[Len(calls')].method)

PlainRef(uid) == [populated |-> FALSE, _id |-> uid]
PopulatedRef(uid) == [populated |-> TRUE, _id |-> uid]
NullRef == [populated |-> FALSE, _id |-> None]

\* c.citizenId?._id || c.citizenId
CitizenIdOf(c) == c.citizenId._id

\* A view that compares the plain citizenId only.
myComplaintsPlainOnly(cs, user) ==
    LET uid == IF user[1].id # "" THEN user[1].id ELSE user[1]._id
        Mine(c) == ~c.citizenId.populated /\ c.citizenId._id = uid
    IN  IF user = <<>> THEN <<>>
        ELSE IF user[1].role = "admin" THEN cs
        ELSE SelectSeq(cs, Mine)

\* myComplaints: nothing without a user, everything for an admin, and for a
\* citizen the complaints whose owner is currentUser.id || currentUser._id.
myComplaints(cs, user) ==
    LET uid == IF user[1].id # "" THEN user[1].id ELSE user[1]._id
        Mine(c) == CitizenIdOf(c) # None /\ CitizenIdOf(c) = uid
    IN  IF user = <<>> THEN <<>>
        ELSE IF user[1].role = "admin" THEN cs
        ELSE SelectSeq(cs, Mine)

MaxViewLen == 3

ViewRefs ==
    {PlainRef(Citizen1), PlainRef(Citizen2), PopulatedRef(Citizen1),
     PopulatedRef(Citizen2), NullRef}

ViewItem(n, ref) == [id |-> HumanIdOf(n), citizenId |-> ref]

\* A stored or a fresh session: normaliseUser has set id, an older stored
\* record has _id only.
ViewSessions ==
    {<<>>,
     <<[id |-> Citizen1, _id |-> Citizen1, role |-> "citizen"]>>,
     <<[id |-> "", _id |-> Citizen1, role |-> "citizen"]>>,
     <<[id |-> Citizen2, _id |-> Citizen2, role |-> "citizen"]>>,
     <<[id |-> Admin1, _id |-> Admin1, role |-> "admin"]>>}

InitView ==
    /\ now = 0 /\ ticks = 0
    /\ cache = [k \in GetKeys |-> <<>>]
    /\ inFlight = [k \in GetKeys |-> NoCall]
    /\ calls = <<>> /\ ops = <<>> /\ timers = <<>>
    /\ isLoadingComplaints = FALSE /\ isLoadingUsers = FALSE
    /\ token = None /\ lsUser = <<>> /\ lsComplaints = <<>>
    /\ users = <<>> /\ pollTimer = <<>>
    /\ didInit = TRUE
    /\ srv = SeedSrv
    /\ complaints = <<>>
    /\ currentUser = <<>>
    /\ currentUserRef = currentUser

\* setComplaints with one more item in front, and setCurrentUser.
ViewPrepend(ref) ==
    /\ Len(complaints) < MaxViewLen
    /\ complaints' = <<ViewItem(Len(complaints) + 1, ref)>> \o complaints
    /\ UNCHANGED <<now, ticks, token, cache, inFlight, calls, srv, ops, currentUser,
                   currentUserRef, users, isLoadingComplaints, isLoadingUsers,
                   pollTimer, timers, lsUser, lsComplaints, didInit>>

ViewSetCurrentUser(u) ==
    /\ currentUser' = u /\ currentUserRef' = u
    /\ UNCHANGED <<now, ticks, token, cache, inFlight, calls, srv, ops, complaints,
                   users, isLoadingComplaints, isLoadingUsers, pollTimer, timers,
                   lsUser, lsComplaints, didInit>>

NextView ==
    \/ \E ref \in ViewRefs : ViewPrepend(ref)
    \/ \E u \in ViewSessions : ViewSetCurrentUser(u)

SpecView == InitView /\ [][NextView]_vars

OwnedBy(c, uid) == c.citizenId._id = uid

\* C16: for a citizen, myComplaints is the collection restricted to the items
\* whose citizenId, plain or populated, is the user's identifier (in the
\* collection's order); for an admin it is the collection; with no user it is
\* empty.
C16_RoleScopedView ==
    LET view == myComplaints(complaints, currentUser)
        Uid == IF currentUser[1].id # "" THEN currentUser[1].id ELSE currentUser[1]._id
        Own(c) == OwnedBy(c, Uid)
    IN  /\ currentUser = <<>> => view = <<>>
        /\ (currentUser # <<>> /\ currentUser[1].role = "admin") => view = complaints
        /\ (currentUser # <<>> /\ currentUser[1].role = "citizen") =>
              view = SelectSeq(complaints, Own)

\* A citizen's collection holds an own complaint with a plain owner, an own
\* one with a populated owner and somebody else's, and the view has the two.
C16_Witness ==
    /\ currentUser # <<>> /\ currentUser[1].role = "citizen"
    /\ Len(complaints) = 3
    /\ \E i, j, k \in 1..3 :
          /\ complaints[i].citizenId = PlainRef(Citizen1)
          /\ complaints[j].citizenId = PopulatedRef(Citizen1)
          /\ complaints[k].citizenId = PlainRef(Citizen2)
    /\ Len(myComplaints(complaints, currentUser)) = 2

\* ------------------------------------------- the server under concurrent load
\* controllers/ComplaintController.js supportComplaint runs in three steps with
\* an await between them: findOne and the includes check; save of the document
\* it has pushed the supporter to; the 10 points for the owner.
MaxRequests == 3

InitServer ==
    /\ now = 0 /\ ticks = 0
    /\ cache = [k \in GetKeys |-> <<>>]
    /\ inFlight = [k \in GetKeys |-> NoCall]
    /\ calls = <<>> /\ ops = <<>> /\ timers = <<>>
    /\ isLoadingComplaints = FALSE /\ isLoadingUsers = FALSE
    /\ token = None /\ lsUser = <<>> /\ lsComplaints = <<>>
    /\ currentUser = <<>> /\ currentUserRef = <<>>
    /\ complaints = <<>> /\ users = <<>> /\ pollTimer = <<>>
    /\ didInit = TRUE
    /\ srv = SeedSrv

ServerStep(s) ==
    /\ srv' = s
    /\ UNCHANGED <<now, ticks, token, cache, inFlight, calls, ops, currentUser,
                   currentUserRef, complaints, users, isLoadingComplaints,
                   isLoadingUsers, pollTimer, timers, lsUser, lsComplaints, didInit>>

\* findOne; 404 if there is none, 400 if supportedBy includes the caller;
\* otherwise the caller is pushed to the document in memory and supportCount
\* is set to the length of that array.
SupportFind(tok, id) ==
    LET i == FindIdx(srv.complaints, id)
        doc == srv.complaints[i]
        pushed == Append(doc.supportedBy, tok)
        r == [tok |-> tok, _id |-> doc._id, pc |-> "save", pushed |-> tok,
              supportCount |-> Len(pushed), http |-> 0]
        refused(http) == [tok |-> tok, _id |-> id, pc |-> "done", pushed |-> tok,
                          supportCount |-> 0, http |-> http]
    IN  /\ Len(srv.requests) < MaxRequests
        /\ ServerStep([srv EXCEPT !.requests =
                Append(srv.requests,
                       IF i = 0 THEN refused(404)
                       ELSE IF Has(doc.supportedBy, tok) THEN refused(400)
                       ELSE r)])

\* complaint.save(): the push becomes a $push on the stored array and the
\* count a $set of the value computed in memory.
SupportSave(n) ==
    LET r == srv.requests[n]
        i == FindIdx(srv.complaints, r._id)
        c == srv.complaints[i]
    IN  /\ r.pc = "save"
        /\ ServerStep([srv EXCEPT
                !.complaints[i] = [c EXCEPT !.supportedBy = Append(c.supportedBy, r.pushed),
                                            !.supportCount = r.supportCount],
                !.ver = srv.ver + 1,
                !.requests[n].pc = "award"])

\* User.findByIdAndUpdate($inc points 10), updateBadge, and the answer.
SupportAward(n) ==
    LET r == srv.requests[n]
        i == FindIdx(srv.complaints, r._id)
    IN  /\ r.pc = "award"
        /\ ServerStep([srv EXCEPT
                !.users = awardPoints(srv.users, srv.complaints[i].citizenId, 10, 0),
                !.requests[n].pc = "done", !.requests[n].http = 200])

NextServer ==
    \/ \E tok \in {Citizen1, Citizen2}, id \in {H1, S1, "m9"} : SupportFind(tok, id)
    \/ \E n \in 1..Len(srv.requests) : SupportSave(n)
    \/ \E n \in 1..Len(srv.requests) : SupportAward(n)

SpecServer == InitServer /\ [][NextServer]_vars

Distinct(arr) == {arr[k] : k \in 1..Len(arr)}

\* C17: whatever the interleaving of support requests, no identity is in a
\* complaint's supportedBy twice, and the complaint's supportCount is the
\* number of identities in supportedBy.
C17_SupportCountedOnce ==
    \A k \in 1..Len(srv.complaints) :
        LET c == srv.complaints[k]
        IN  /\ Cardinality(Distinct(c.supportedBy)) = Len(c.supportedBy)
            /\ c.supportCount = Cardinality(Distinct(c.supportedBy))

\* --------------------------------------------------- the complaint timeline
\* updateStatus and resolveComplaint each read the document, change it in
\* memory and save it, with an await in between; requests of several admins
\* interleave at those awaits.
MaxCreated == 3
StatusInputs == {"", "Submitted", "Under Review", "In Progress", "Resolved"}

InitTimeline == InitServer

\* Step index of a status in the timeline: Submitted 0 ... Resolved 3.
StepIndex(status) == IF status = "Submitted" THEN 0 ELSE StepOf(status)

StatusReq(kind, id, status, tl, dirty, pc, http) ==
    [kind |-> kind, _id |-> id, status |-> status, timeline |-> tl,
     dirty |-> dirty, pc |-> pc, http |-> http]

\* updateStatus up to the save: 400 without a status, 404 without a document,
\* otherwise the steps are marked on the document in memory.
StatusFind(id, status) ==
    LET i == FindIdx(srv.complaints, id)
        doc == srv.complaints[i]
        tl == markSteps(doc.timeline, StepOf(status))
        r == IF status = "" THEN StatusReq("status", id, status, <<>>, {}, "done", 400)
             ELSE IF i = 0 THEN StatusReq("status", id, status, <<>>, {}, "done", 404)
             ELSE StatusReq("status", doc._id, status, tl,
                            {n \in 1..Len(tl) : tl[n] # doc.timeline[n]}, "save", 0)
    IN  /\ Len(srv.requests) < MaxRequests
        /\ ServerStep([srv EXCEPT !.requests = Append(srv.requests, r)])

\* complaint.save() of updateStatus: the modified steps and the status are
\* written, and the complaint is answered.
StatusSave(n) ==
    LET r == srv.requests[n]
        i == FindIdx(srv.complaints, r._id)
        c == srv.complaints[i]
        tl == [m \in 1..Len(c.timeline) |->
                  IF m \in r.dirty THEN r.timeline[m] ELSE c.timeline[m]]
    IN  /\ r.pc = "save" /\ r.kind = "status"
        /\ ServerStep([srv EXCEPT
                !.complaints[i] = [c EXCEPT !.status = r.status, !.timeline = tl],
                !.ver = srv.ver + 1,
                !.requests[n].pc = "done", !.requests[n].http = 200])

\* resolveComplaint up to the save: 404 without a document, otherwise the
\* timeline in memory is replaced by one with every step done.
ResolveFind(id) ==
    LET i == FindIdx(srv.complaints, id)
        doc == srv.complaints[i]
        r == IF i = 0 THEN StatusReq("resolve", id, "Resolved", <<>>, {}, "done", 404)
             ELSE StatusReq("resolve", doc._id, "Resolved", markAll(doc.timeline),
                            {}, "save", 0)
    IN  /\ Len(srv.requests) < MaxRequests
        /\ ServerStep([srv EXCEPT !.requests = Append(srv.requests, r)])

\* complaint.save() of resolveComplaint: the whole timeline is written.
ResolveSave(n) ==
    LET r == srv.requests[n]
        i == FindIdx(srv.complaints, r._id)
        c == srv.complaints[i]
    IN  /\ r.pc = "save" /\ r.kind = "resolve"
        /\ ServerStep([srv EXCEPT
                !.complaints[i] = [c EXCEPT !.status = "Resolved", !.timeline = r.timeline],
                !.ver = srv.ver + 1,
                !.requests[n].pc = "award"])

\* The 100 points of the owner, and the answer.
ResolveAward(n) ==
    LET r == srv.requests[n]
        i == FindIdx(srv.complaints, r._id)
    IN  /\ r.pc = "award"
        /\ ServerStep([srv EXCEPT
                !.users = awardPoints(srv.users, srv.complaints[i].citizenId, 100, 0),
                !.requests[n].pc = "done", !.requests[n].http = 200])

\* save() rejects (a version conflict with a concurrent write, a validation
\* or a database error): the catch answers 500 and nothing is written.
SaveRejected(n) ==
    /\ srv.requests[n].pc = "save"
    /\ ServerStep([srv EXCEPT !.requests[n].pc = "done", !.requests[n].http = 500])

\* A citizen files a complaint while the admins work.
CreateRequest(tok) ==
    /\ srv.seq < MaxCreated
    /\ ServerStep(createComplaint(srv, tok, <<"title">>).srv)

NextTimeline ==
    \/ \E id \in {H1, S1, "m3", "m9"}, status \in StatusInputs : StatusFind(id, status)
    \/ \E n \in 1..Len(srv.requests) : StatusSave(n)
    \/ \E id \in {H1, S1, "m3", "m9"} : ResolveFind(id)
    \/ \E n \in 1..Len(srv.requests) : ResolveSave(n)
    \/ \E n \in 1..Len(srv.requests) : ResolveAward(n)
    \/ \E n \in 1..Len(srv.requests) : SaveRejected(n)
    \/ CreateRequest(Citizen1)

SpecTimeline == InitTimeline /\ [][NextTimeline]_vars

Dated(step) == step.done /\ step.date # NoDate

\* C18: when a status change or a resolve is answered with success for step
\* index k, every step of that complaint's timeline up to k is done and has
\* a date; and no step of any complaint that is done ever becomes not done.
C18_TimelineMonotone ==
    [][/\ \A n \in 1..Len(srv.requests) :
            LET r == srv'.requests[n]
                c == srv'.complaints[FindIdx(srv'.complaints, r._id)]
            IN  (n <= Len(srv'.requests) /\ srv.requests[n].http # 200 /\ r.http = 200)
                    => \A m \in 1..(StepIndex(r.status) + 1) : Dated(c.timeline[m])
       /\ \A k \in 1..Len(srv.complaints) :
            LET c == srv.complaints[k]
                d == srv'.complaints[FindIdx(srv'.complaints, c._id)]
            IN  \A m \in 1..Len(c.timeline) : c.timeline[m].done => Dated(d.timeline[m])
      ]_vars

\* A status change to In Progress has been answered with success on a
\* complaint whose last step is still open, and a resolve has been answered
\* with success on another.
C18_Witness ==
    \E a, b \in 1..Len(srv.requests) :
        /\ srv.requests[a].kind = "status" /\ srv.requests[a].status = "In Progress"
        /\ srv.requests[a].http = 200
        /\ srv.requests[b].kind = "resolve" /\ srv.requests[b].http = 200
        /\ \E k \in 1..Len(srv.complaints) :
              /\ srv.complaints[k]._id = srv.requests[a]._id
              /\ Dated(srv.complaints[k].timeline[3])
              /\ ~srv.complaints[k].timeline[4].done

\* ------------------------------------------------ a store that refuses writes
\* localStorage.setItem throws (QuotaExceededError) when the store is full.
\* ls.set catches it; setToken and saveUser do not.
MaxStoreOps == 3
MaxStoreCalls == 3
QuotaExceededError == <<"quota", "exceeded">>

\* ls.set with a full store: the catch swallows the error, nothing is written.
lsSetFull(c, list) == c

\* loadComplaints after its await, with a full store.
loadComplaintsSettledFull(c, i) ==
    LET o == c.ops[i]
        res == ResultOf(c.calls, o.call)
        released == [c EXCEPT !.isLoadingComplaints = FALSE]
        normalised == MapSeq(res.data.complaints, normaliseComplaint)
    IN  IF res.ok
        THEN Finish(lsSetFull([released EXCEPT !.complaints = normalised], normalised),
                    i, "done", <<>>)
        ELSE IF Includes(res.msg, <<"timed", "out">>) /\ o.attempt < 3
        THEN Finish(SetTimeout(released, "loadComplaints", o.user, o.attempt + 1),
                    i, "done", res.msg)
        ELSE Finish(released, i, "done", res.msg)

\* login after its await, with a full store: setToken(result.token) throws
\* before the user is set, and nothing in login catches it.
loginSettledFull(c, i) ==
    LET res == ResultOf(c.calls, c.ops[i].call)
    IN  IF ~res.ok THEN Finish(c, i, "failed", res.msg)
        ELSE IF res.data.token = None THEN Finish(c, i, "failed", MsgNoTokenReceived)
        ELSE Finish(c, i, "failed", QuotaExceededError)

resumeFull(c, i) ==
    LET kind == c.ops[i].kind
    IN  CASE kind = "loadComplaints" -> loadComplaintsSettledFull(c, i)
          [] kind = "loadUsers" -> loadUsersSettled(c, i)
          [] kind = "login" -> loginSettledFull(c, i)

\* A promise reaction that runs while the store is full.
ResumeStoreFull ==
    \E i \in 1..Len(ops) :
        /\ Ready(ops[i])
        /\ \A j \in 1..(i - 1) : ~Ready(ops[j])
        /\ ClientStep(resumeFull(Cur, i))

InitStore == InitSession(Citizen1, SeedSrv)

NextStore ==
    \/ Within(MaxStoreOps, MaxStoreCalls) /\ RefreshComplaints
    \/ Within(MaxStoreOps, MaxStoreCalls) /\ \E uid \in {Citizen2, Admin1} : Login(uid, Role(uid))
    \/ \E c \in 1..Len(calls) : FetchRespond(c, "deliver")
    \/ Resume
    \/ ResumeStoreFull

SpecStore == InitStore /\ [][NextStore]_vars

\* C19: no operation of the context ends with the error of a refused write
\* of the local store: the write failure never reaches the caller.
C19_WriteFailureNotThrown ==
    \A i \in 1..Len(ops) : ops[i].err # QuotaExceededError

\* ------------------------------------------------- rollback and its neighbours
OthersOf(cs, id) == {cs[k] : k \in {n \in 1..Len(cs) : ~matchId(cs[n], id)}}

\* C20: when an optimistic mutation of complaint X fails and is rolled back
\* while every other operation has completed with success, the complaints
\* other than X are after the rollback what they were just before it: what
\* the other operations did to them in the meantime is kept.
C20_RollbackTouchesOnlyItsItem ==
    [][\A i \in 1..Len(ops) :
          (/\ ops[i].kind \in Optimistic
           /\ ops[i].pc = "await"
           /\ ops'[i].pc # "await"
           /\ ~ResultOf(calls, ops[i].call).ok
           /\ \A j \in 1..Len(ops) : j # i => ops[j].pc = "done") =>
              OthersOf(complaints', ops[i].id) = OthersOf(complaints, ops[i].id)]_vars

\* ------------------------------------------------------------- after logout
\* What logout() leaves behind.
LoggedOut ==
    /\ currentUser = <<>> /\ lsUser = <<>> /\ token = None
    /\ complaints = <<>> /\ users = <<>> /\ pollTimer = <<>>

LoginPending == \E i \in 1..Len(ops) : ops[i].kind = "login" /\ ops[i].pc = "await"

\* C21: from logout() on, and as long as no login has been called, the
\* session, the stored session and token, the collections and the poll timer
\* stay cleared, whatever response that was in flight arrives.
C21_LogoutStaysLoggedOut ==
    [][(LoggedOut /\ ~LoginPending /\ ~LoginPending') =>
            (/\ currentUser' = <<>> /\ lsUser' = <<>> /\ token' = None
             /\ complaints' = <<>> /\ users' = <<>> /\ pollTimer' = <<>>)]_vars

\* ------------------------------------------------- the flags are given back
MaxReleaseOps == 3
MaxReleaseCalls == 3
ReleaseKinds == {"deliver", "neterr", "abort"}

InitRelease == InitSession(Admin1, SeedSrv)

NextRelease ==
    \/ Within(MaxReleaseOps, MaxReleaseCalls) /\ RefreshComplaints
    \/ Within(MaxReleaseOps, MaxReleaseCalls) /\ PollTick
    \/ TimerFire
    \/ \E c \in 1..Len(calls), kind \in ReleaseKinds : FetchRespond(c, kind)
    \/ \E c \in 1..Len(calls) : BackoffExpire(c)
    \/ Resume

SpecRelease == InitRelease /\ [][NextRelease]_vars

\* Every fetch is answered, fails or is aborted by its 30 s timer; every
\* backoff timer fires; every promise reaction that is due runs.
FairRelease ==
    /\ SpecRelease
    /\ WF_vars(\E c \in 1..Len(calls), kind \in ReleaseKinds : FetchRespond(c, kind))
    /\ WF_vars(\E c \in 1..Len(calls) : BackoffExpire(c))
    /\ WF_vars(Resume)

\* C22: a reentrancy flag that is set is always released later, whatever the
\* outcome of the GET behind it.
C22_FlagsReleased ==
    /\ isLoadingComplaints ~> ~isLoadingComplaints
    /\ isLoadingUsers ~> ~isLoadingUsers

\* ------------------------------------------- reads around a pending mutation
MaxStaleCalls == 3
StaleGets == {EpListQ, EpStats, EpItem(S1)}
StaleMutations ==
    {[method |-> "PATCH", ep |-> EpStatus(S1), body |-> <<"In Progress">>],
     [method |-> "PATCH", ep |-> EpResolve(S1), body |-> <<>>]}

InitStale == InitGateway

\* A caller of the gateway issues a GET, or a mutation.
StaleGet(k) ==
    /\ Quiescent
    /\ Len(calls) < MaxStaleCalls
    /\ Commit(ApiCall(Cur, "GET", k, <<>>))
    /\ UNCHANGED <<now, ticks, srv>>

StaleMutate(m) ==
    /\ Quiescent
    /\ Len(calls) < MaxStaleCalls
    /\ Commit(ApiCall(Cur, m.method, m.ep, m.body))
    /\ UNCHANGED <<now, ticks, srv>>

NextStale ==
    \/ \E k \in StaleGets : StaleGet(k)
    \/ \E m \in StaleMutations : StaleMutate(m)
    \/ \E c \in 1..Len(calls) : FetchRespond(c, "deliver")
    \/ Tick(1)

SpecStale == InitStale /\ [][NextStale]_vars

\* C23: a GET of the item, of the list or of the statistics that is answered
\* from the cache is answered with a payload at least as new as the answer of
\* every mutation of that item which had succeeded when the GET was made.
C23_NoStaleReadAfterMutation ==
    [][(/\ Len(calls') = Len(calls) + 1
        /\ IsGet(calls'[Len(calls')].method)
        /\ calls'[Len(calls')].st = "ok"
        /\ calls'[Len(calls')].nfetch = 0) =>
            \A m \in 1..Len(calls) :
                (~IsGet(calls[m].method) /\ calls[m].st = "ok") =>
                    calls'[Len(calls')].res.data.ver >= calls[m].res.data.ver]_vars

\* ------------------------------------------------------ whom a tick polls for
\* C24: the fetches a poll tick issues are for the session that is in
\* currentUserRef at the tick; when there is none, the tick issues no fetch.
C24_PollUsesLiveSession ==
    [][PollTick =>
          /\ currentUserRef = <<>> => Len(calls') = Len(calls)
          /\ \A i \in (Len(ops) + 1)..Len(ops') : ops'[i].user = currentUserRef]_vars

\* --------------------------------------------------- refreshing while loading
MaxRefreshOps == 4
MaxRefreshCalls == 3
RefreshKinds == {"deliver", "abort"}

InitRefresh == InitSession(Citizen1, SeedSrv)

NextRefresh ==
    \/ Within(MaxRefreshOps, MaxRefreshCalls) /\ HandleRefresh
    \/ Within(MaxRefreshOps, MaxRefreshCalls) /\ PollTick
    \/ Within(MaxRefreshOps, MaxRefreshCalls) /\ TimerFire
    \/ \E c \in 1..Len(calls), kind \in RefreshKinds : FetchRespond(c, kind)
    \/ Resume

SpecRefresh == InitRefresh /\ [][NextRefresh]_vars

\* C25: the promise refreshComplaints() returned to a caller has settled only
\* if no loadComplaints that was running when it was called is still waiting
\* for its fetch.
C25_RefreshWaitsForRunningLoad ==
    \A i \in 1..Len(ops) :
        (ops[i].kind = "handleRefresh" /\ ops[i].pc = "done") =>
            \A j \in 1..(i - 1) : ops[j].kind = "loadComplaints" => ops[j].pc # "await"

\* ------------------------------------------- status and timeline on the client
\* C26: every complaint of the local collection has the timeline steps up to
\* the step of its status marked done.
C26_LocalStatusMatchesTimeline ==
    \A k \in 1..Len(complaints) :
        \A n \in 1..(StepIndex(complaints[k].status) + 1) :
            complaints[k].timeline[n].done

\* --------------------------------------------------- failures of mutations
MaxProfileOps == 2
MaxProfileCalls == 3
ProfileKinds == {"deliver", "neterr", "abort"}
Wards == {"ward 1", "ward 2"}
Mutations ==
    {"updateUser", "addComplaint", "updateComplaintStatus", "resolveComplaint",
     "deleteComplaint", "supportComplaint", "submitFeedback"}

InitProfile == InitSession(Citizen1, SeedSrv)

NextProfile ==
    \/ \E w \in Wards : Within(MaxProfileOps, MaxProfileCalls) /\ UpdateUser(w)
    \/ Within(MaxProfileOps, MaxProfileCalls) /\ AddComplaint("title")
    \/ \E c \in 1..Len(calls), kind \in ProfileKinds : FetchRespond(c, kind)
    \/ \E c \in 1..Len(calls) : BackoffExpire(c)
    \/ Resume

SpecProfile == InitProfile /\ [][NextProfile]_vars

\* C27: a mutation whose gateway call has failed ends with that error raised
\* to its caller; a failed updateUser leaves the user shown and the stored
\* session as they were before the call.
C27_MutationFailureRaised ==
    [][\A i \in 1..Len(ops) :
          (/\ ops[i].kind \in Mutations
           /\ ops[i].pc = "await"
           /\ ops'[i].pc # "await"
           /\ ~ResultOf(calls, ops[i].call).ok) =>
              /\ ops'[i].pc = "failed"
              /\ ops'[i].err = ResultOf(calls, ops[i].call).msg
              /\ ops[i].kind = "updateUser" =>
                    (currentUser' = ops[i].snapshot /\ lsUser' = ops[i].snapshot)]_vars

\* ------------------------------------------------------------ rating twice
\* submitFeedback reads the complaint, checks it and sets the feedback on the
\* document in memory; the save and the 25 points follow after an await.
Ratings == {"5 stars", "1 star"}

InitRate ==
    /\ now = 0 /\ ticks = 0
    /\ cache = [k \in GetKeys |-> <<>>]
    /\ inFlight = [k \in GetKeys |-> NoCall]
    /\ calls = <<>> /\ ops = <<>> /\ timers = <<>>
    /\ isLoadingComplaints = FALSE /\ isLoadingUsers = FALSE
    /\ token = None /\ lsUser = <<>> /\ lsComplaints = <<>>
    /\ currentUser = <<>> /\ currentUserRef = <<>>
    /\ complaints = <<>> /\ users = <<>> /\ pollTimer = <<>>
    /\ didInit = TRUE
    /\ srv \in FeedbackSrvs

FeedbackReq(tok, id, fb, pc, http) ==
    [kind |-> "feedback", tok |-> tok, _id |-> id, fb |-> fb, pc |-> pc, http |-> http]

\* findOne and the four checks: 404, 400 (not resolved), 403 (not the owner),
\* 400 (feedback already there).
FeedbackFind(tok, id, fb) ==
    LET i == FindIdx(srv.complaints, id)
        doc == srv.complaints[i]
        r == IF i = 0 THEN FeedbackReq(tok, id, fb, "done", 404)
             ELSE IF doc.status # "Resolved" THEN FeedbackReq(tok, id, fb, "done", 400)
             ELSE IF doc.citizenId # tok THEN FeedbackReq(tok, id, fb, "done", 403)
             ELSE IF doc.feedback # <<>> THEN FeedbackReq(tok, id, fb, "done", 400)
             ELSE FeedbackReq(tok, doc._id, fb, "save", 0)
    IN  /\ Len(srv.requests) < MaxRequests
        /\ ServerStep([srv EXCEPT !.requests = Append(srv.requests, r)])

\* complaint.save(): the feedback set in memory is written.
FeedbackSave(n) ==
    LET r == srv.requests[n]
        i == FindIdx(srv.complaints, r._id)
    IN  /\ r.pc = "save"
        /\ ServerStep([srv EXCEPT !.complaints[i].feedback = <<r.fb>>,
                                  !.ver = srv.ver + 1,
                                  !.requests[n].pc = "award"])

\* The 25 points of the caller, and the answer.
FeedbackAward(n) ==
    LET r == srv.requests[n]
    IN  /\ r.pc = "award"
        /\ ServerStep([srv EXCEPT !.users = awardPoints(srv.users, r.tok, 25, 0),
                                  !.requests[n].pc = "done", !.requests[n].http = 200])

NextRate ==
    \/ \E tok \in {Citizen1, Citizen2}, id \in {H1, S1, S2}, fb \in Ratings :
            FeedbackFind(tok, id, fb)
    \/ \E n \in 1..Len(srv.requests) : FeedbackSave(n)
    \/ \E n \in 1..Len(srv.requests) : FeedbackAward(n)

SpecRate == InitRate /\ [][NextRate]_vars

Awarded(s, id) == {n \in 1..Len(s.requests) : s.requests[n]._id = id /\ s.requests[n].http = 200}

\* C28: a feedback that is stored on a complaint is never replaced, and the
\* 25 points are given for a complaint at most once.
C28_FeedbackOnceOnly ==
    [][\A k \in 1..Len(srv.complaints) :
          /\ srv.complaints[k].feedback # <<>> =>
                srv'.complaints[k].feedback = srv.complaints[k].feedback
          /\ Cardinality(Awarded(srv', srv.complaints[k]._id)) <= 1]_vars

\* ----------------------------------------------------- points and the badge
\* awardPoints is two queries: the $inc that answers the new points with the
\* badge as it is stored, and, if the badge of those points differs from it,
\* the update that stores the badge. Awards of several requests interleave
\* between the two.
MaxAwards == 6
AwardAmounts == {10, 100}
StartPoints == {0, 490}

InitAwards ==
    /\ now = 0 /\ ticks = 0
    /\ cache = [k \in GetKeys |-> <<>>]
    /\ inFlight = [k \in GetKeys |-> NoCall]
    /\ calls = <<>> /\ ops = <<>> /\ timers = <<>>
    /\ isLoadingComplaints = FALSE /\ isLoadingUsers = FALSE
    /\ token = None /\ lsUser = <<>> /\ lsComplaints = <<>>
    /\ currentUser = <<>> /\ currentUserRef = <<>>
    /\ complaints = <<>> /\ users = <<>> /\ pollTimer = <<>>
    /\ didInit = TRUE
    /\ \E p \in StartPoints :
            srv = [SeedSrv EXCEPT !.users[Citizen1].points = p,
                                  !.users[Citizen1].badge = getBadge(p)]

\* findByIdAndUpdate(userId, { $inc }, { new: true, select: 'points badge' })
AwardInc(uid, pts) ==
    LET p == srv.users[uid].points + pts
        r == [kind |-> "award", uid |-> uid, points |-> p, badge |-> srv.users[uid].badge,
              pc |-> "badge"]
    IN  /\ Len(srv.requests) < MaxAwards
        /\ ServerStep([srv EXCEPT !.users[uid].points = p,
                                  !.requests = Append(srv.requests, r)])

\* if (badge !== user.badge) findByIdAndUpdate(userId, { badge })
AwardBadge(n) ==
    LET r == srv.requests[n]
        badge == getBadge(r.points)
    IN  /\ r.pc = "badge"
        /\ ServerStep([srv EXCEPT
                !.users[r.uid].badge = IF badge # r.badge THEN badge ELSE @,
                !.requests[n].pc = "done"])

NextAwards ==
    \/ \E pts \in AwardAmounts : AwardInc(Citizen1, pts)
    \/ \E n \in 1..Len(srv.requests) : AwardBadge(n)

SpecAwards == InitAwards /\ [][NextAwards]_vars

\* C29: when no award is between its two queries, the stored badge of every
\* citizen is the badge of the stored points.
C29_BadgeFollowsPoints ==
    (\A n \in 1..Len(srv.requests) : srv.requests[n].pc = "done") =>
        \A uid \in {Citizen1, Citizen2} :
            srv.users[uid].badge = getBadge(srv.users[uid].points)

\* ------------------------------------------------- one call, one complaint
AddCalls == {i \in 1..Len(ops) : ops[i].kind = "addComplaint"}

\* C30: the server has created at most as many complaints, and has given at
\* most as many 50-point awards, as addComplaint has been called; and the user
\* shown has at most 50 points for each call.
C30_OneCreatePerAddCall ==
    /\ srv.seq - SeedSrv.seq <= Cardinality(AddCalls)
    /\ srv.users[Citizen1].points <= 50 * Cardinality(AddCalls)
    /\ currentUser # <<>> => currentUser[1].points <= 50 * Cardinality(AddCalls)

====
